---- MODULE Spec2Model ----
(***************************************************************************)
(* Browser bridge of the password manager: Token Store, pairing session,   *)
(* Approval Engine with its Remembered Decision Store, and the two         *)
(* transports (HTTP endpoints, domain-socket handler).                     *)
(*                                                                         *)
(* Strings whose content the code inspects (origins, fingerprints, sites,  *)
(* notes, store keys) are sequences of one-character strings.  Time is the *)
(* value of time.time(), counted in whole ticks.  Bearer tokens are the    *)
(* values of secrets.token_urlsafe(32): the k-th token generated is k, and *)
(* a client can present a token it was issued or a string that is no       *)
(* issued token (BadToken), never a token that is yet to be generated.     *)
(***************************************************************************)
EXTENDS Integers, Sequences, FiniteSets, TLC

\* ---------------------------------------------------------------- bounds
MaxTime == 2
NumTokens == 2
NumCodes == 2
MaxRequests == 2
MaxVault == 3
MaxStamp == 1

\* ------------------------------------------------ configuration values
TTL == 1
PairingWindow == 1

Workers == {1, 2}
Codes == 1..NumCodes
BadToken == 0

None == << >>
Some(x) == <<x>>

\* json.dump of a dict writes its members; json.load builds the dict back
json_dump(map) == { <<k, map[k]>> : k \in DOMAIN map }
json_load(members) ==
    [k \in { m[1] : m \in members } |->
        (CHOOSE m \in members : m[1] = k)[2]]

\* What a store's file can hold: nothing (the file is absent), text that is
\* not JSON, the JSON value [] (valid JSON that is not an object), or a JSON
\* object with its members.
FileAbsent == [kind |-> "absent", members |-> {}]
FileMalformed == [kind |-> "malformed", members |-> {}]
FileList == [kind |-> "list", members |-> {}]
FileObject(map) == [kind |-> "object", members |-> json_dump(map)]

Remove(map, k) == [x \in DOMAIN map \ {k} |-> map[x]]
Put(map, k, v) == [x \in DOMAIN map \cup {k} |-> IF x = k THEN v ELSE map[x]]

\* ------------------------------------------------------------- strings
LowerChar(c) ==
    CASE c = "A" -> "a"
      [] c = "U" -> "u"
      [] c = "S" -> "s"
      [] OTHER -> c

Lower(s) == [i \in DOMAIN s |-> LowerChar(s[i])]

StartsWithAt(s, sub, i) ==
    /\ i + Len(sub) - 1 <= Len(s)
    /\ SubSeq(s, i, i + Len(sub) - 1) = sub

\* Python's `sub in s`
Contains(sub, s) == \E i \in 1..(Len(s) + 1) : StartsWithAt(s, sub, i)

RECURSIVE ReplaceFrom(_, _, _, _)
ReplaceFrom(s, old, new, i) ==
    IF i > Len(s) THEN << >>
    ELSE IF StartsWithAt(s, old, i)
         THEN new \o ReplaceFrom(s, old, new, i + Len(old))
         ELSE <<s[i]>> \o ReplaceFrom(s, old, new, i + 1)

\* Python's s.replace(old, new) for a non-empty old
Replace(s, old, new) == ReplaceFrom(s, old, new, 1)

\* Python's s.split(sep)[0] for a one-character sep
SplitFirst(s, sep) ==
    IF \E i \in DOMAIN s : s[i] = sep
    THEN SubSeq(s, 1, (CHOOSE i \in DOMAIN s :
                          /\ s[i] = sep
                          /\ \A j \in 1..(i - 1) : s[j] # sep) - 1)
    ELSE s

HTTPS == <<"h", "t", "t", "p", "s", ":", "/", "/">>
HTTP == <<"h", "t", "t", "p", ":", "/", "/">>

origin_domain(origin) ==
    SplitFirst(Replace(Replace(origin, HTTPS, << >>), HTTP, << >>), "/")

origin_name(origin) ==
    IF Contains(<<".">>, origin_domain(origin))
    THEN SplitFirst(origin_domain(origin), ".")
    ELSE origin_domain(origin)

\* the match test of credentials_query / credentials_check on an origin
\* (already lower-cased or not, as the caller passes it)
entry_matches(origin, entry) ==
    LET site == Lower(entry.website)
        notes == Lower(entry.notes)
    IN  \/ Contains(origin, site)
        \/ Contains(origin_domain(origin), site)
        \/ Contains(origin_name(origin), site)
        \/ Contains(origin, notes)
        \/ Contains(origin_domain(origin), notes)

\* ------------------------------------------------------ input domains
Origins == { <<"a">>, <<"z">> }
Unknown == <<"u", "n", "k", "n", "o", "w", "n">>
\* the clients that pair: one names its browser, the other does not
Clients ==
    { [fingerprint |-> <<"c">>, browser |-> None],
      [fingerprint |-> <<"b", ":", "c">>, browser |-> Some(<<"f", "f">>)] }

InitVault ==
    << [id |-> 1, website |-> <<"A", ":", "b">>, username |-> <<"u">>,
        encrypted |-> [ok |-> TRUE, plain |-> <<"p">>], notes |-> << >>],
       [id |-> 2, website |-> <<"z">>, username |-> <<"v">>,
        encrypted |-> [ok |-> FALSE, plain |-> << >>], notes |-> << >>] >>

VARIABLES
    now,          \* time.time()
    tokens,       \* TokenStore._tokens
    tokenFile,    \* content of the token store's JSON file
    ntok,         \* number of tokens generated so far
    pairing,      \* BrowserBridgeService._pairing (None or a session)
    approvals,    \* ApprovalStore._approvals
    approvalFile, \* content of approval_store.json
    pending,      \* ApprovalManager._pending
    responses,    \* ApprovalManager._responses
    handler,      \* ApprovalManager._prompt_handler is set
    vault,        \* rows returned by get_passwords()
    wk,           \* per worker: the request it is serving
    nreq,         \* number of Approval Requests created so far
    consumed,     \* the codes with which a pair request has succeeded
    chan,         \* a domain-socket connection: bytes in flight, the reader
                  \* inside receive_message, messages sent and returned
    srv,          \* the two listeners of BrowserBridgeService and their threads
    certs,        \* the TLS certificate and key files, and the wall clock
    crit,         \* per worker: the shared structure it is operating on;
                  \* and the holder of ApprovalManager._lock
    last          \* the operation that completed last, with its result

vars == <<now, tokens, tokenFile, ntok, pairing, approvals, approvalFile,
          pending, responses, handler, vault, wk, nreq, consumed, chan, srv,
          crit, certs, last>>

\* the state of the parts around the bridge's request handling
extVars == <<chan, srv, crit, certs>>

tokenVars == <<tokens, tokenFile, ntok>>
approvalVars == <<approvals, approvalFile, pending, responses, handler, nreq>>

\* ---------------------------------------------------------- Token Store
issue_token(T, tok, fingerprint, browser, t1, t2) ==
    LET record == [token |-> tok,
                   fingerprint |-> fingerprint,
                   browser |-> IF browser = None THEN Unknown ELSE browser[1],
                   issued_at |-> t1,
                   expires_at |-> t2 + TTL]
    IN  Put(T, tok, record)

\* a revoke that reports success and keeps the record
revoke_keeps(T, tok) == T

revoke(T, tok) == IF tok \in DOMAIN T THEN Remove(T, tok) ELSE T

revoke_ret(T, tok) == tok \in DOMAIN T

token_expired(record, t) == record.expires_at < t

\* validate: the record returned (None or Some) and the map it leaves
validate_ret(T, tok, t) ==
    IF tok \notin DOMAIN T THEN None
    ELSE IF token_expired(T[tok], t) THEN None
    ELSE Some(T[tok])

validate_map(T, tok, t) ==
    IF tok \in DOMAIN T /\ token_expired(T[tok], t) THEN revoke(T, tok) ELSE T

list_tokens(T, t) == { T[k] : k \in { x \in DOMAIN T : T[x].expires_at > t } }

\* _save writes json.dump of the map; _load reads it back.  A file that
\* does not exist loads as the empty map, like a file holding {}.
save(T) == FileObject(T)

\* a load that ignores what the file holds
load_empty(F) == << >>

\* _load: {} unless the file exists, parses and isinstance(data, dict)
load(F) == IF F.kind = "object" THEN json_load(F.members) ELSE << >>

\* ------------------------------------------- Remembered Decision Store
\* The store is what json.load returned: a dict (isdict, with its map) or,
\* when the file held the JSON value [], an empty list.
EmptyDict == [isdict |-> TRUE, map |-> << >>]
EmptyList == [isdict |-> FALSE, map |-> << >>]

\* ApprovalStore._save and _load
approval_save(A) == IF A.isdict THEN FileObject(A.map) ELSE FileList

\* _load: {} when the file is absent or does not parse; otherwise whatever
\* json.load returned, with no isinstance test
approval_load(F) ==
    CASE F.kind = "object" -> [isdict |-> TRUE, map |-> json_load(F.members)]
      [] F.kind = "list" -> EmptyList
      [] OTHER -> EmptyDict

\* key = f"{origin}:{fingerprint}"
Key(origin, fingerprint) == origin \o <<":">> \o fingerprint

\* is_approved: list.get raises AttributeError
is_approved_raises(A) == ~A.isdict

\* a store that never finds a remembered approval
is_approved_never(A, origin, fingerprint) == FALSE

is_approved(A, origin, fingerprint) ==
    /\ Key(origin, fingerprint) \in DOMAIN A.map
    /\ A.map[Key(origin, fingerprint)].approved

\* remember_approval: item assignment with a str index raises on a list
remember_raises(A) == ~A.isdict

\* a remember that stores nothing
remember_nothing(A, origin, fingerprint, approved, t) == A

remember_approval(A, origin, fingerprint, approved, t) ==
    [A EXCEPT !.map = Put(A.map, Key(origin, fingerprint),
                          [approved |-> approved,
                           timestamp |-> t,
                           origin |-> origin,
                           fingerprint |-> fingerprint])]

revoke_approval_ret(A, origin, fingerprint) ==
    Key(origin, fingerprint) \in DOMAIN A.map

revoke_approval(A, origin, fingerprint) ==
    IF Key(origin, fingerprint) \in DOMAIN A.map
    THEN [A EXCEPT !.map = Remove(A.map, Key(origin, fingerprint))]
    ELSE A

\* list_approvals: the stored decisions, each with the origin, fingerprint,
\* timestamp and approved flag it was remembered with
list_approvals(A) == { A.map[k] : k \in DOMAIN A.map }

\* (origin, fingerprint) has a remembered decision with this approved flag
remembered(A, origin, fingerprint, approved) ==
    \E r \in list_approvals(A) :
        /\ r.origin = origin
        /\ r.fingerprint = fingerprint
        /\ r.approved = approved

clear_all_ret(A) == Cardinality(DOMAIN A.map)

clear_all(A) == EmptyDict

\* ------------------------------------------------------ Approval Engine
Decisions == {"APPROVED", "DENIED", "TIMEOUT"}

\* request_id = f"{origin}_{int(time.time() * 1000)}"
request_id(origin, t) == <<origin, t>>

ApprovalRequest(origin, browser, fingerprint, t, entry_count, preview) ==
    [request_id |-> request_id(origin, t),
     origin |-> origin,
     browser |-> browser,
     fingerprint |-> fingerprint,
     timestamp |-> t,
     entry_count |-> entry_count,
     username_preview |-> preview]

ApprovalResponse(rid, decision, remember, t) ==
    [request_id |-> rid, decision |-> decision, remember |-> remember,
     timestamp |-> t]

\* an engine that grants access when no handler answered
timeout_response_open(rid, t) == ApprovalResponse(rid, "APPROVED", FALSE, t)

\* lines 228-231: the response when no handler answered
timeout_response(rid, t) == ApprovalResponse(rid, "TIMEOUT", FALSE, t)

\* what the prompt handler can do: raise, return None, return a response
HandlerOutcomes ==
    { [kind |-> "raise"], [kind |-> "none"] } \cup
    { [kind |-> "response", decision |-> d, remember |-> r] :
        d \in Decisions, r \in BOOLEAN }

\* lines 206-225: TRUE when the try block runs to `return response`
handler_succeeds(A, outcome) ==
    /\ outcome.kind = "response"
    /\ ~(outcome.remember /\ remember_raises(A))

\* an engine that grants access when the handler failed
approval_response_open(A, rid, outcome, t) ==
    IF handler_succeeds(A, outcome)
    THEN ApprovalResponse(rid, outcome.decision, outcome.remember, t)
    ELSE ApprovalResponse(rid, "APPROVED", FALSE, t)

\* the response request_approval returns once the handler is done
approval_response(A, rid, outcome, t) ==
    IF handler_succeeds(A, outcome)
    THEN ApprovalResponse(rid, outcome.decision, outcome.remember, t)
    ELSE timeout_response(rid, t)

\* the Remembered Decision Store once the handler is done
approval_store_after(A, origin, fingerprint, outcome, t) ==
    IF handler_succeeds(A, outcome) /\ outcome.remember
    THEN remember_approval(A, origin, fingerprint,
                           outcome.decision = "APPROVED", t)
    ELSE A

\* cleanup_old_responses, lines 283-292: the request ids whose response has
\* resp.timestamp < cutoff, with cutoff = time.time() - max_age_seconds
to_remove_inclusive(R, t, max_age_seconds) ==
    { rid \in DOMAIN R : R[rid].timestamp <= t - max_age_seconds }

to_remove(R, t, max_age_seconds) ==
    { rid \in DOMAIN R : R[rid].timestamp < t - max_age_seconds }

\* the response history once the ids of to_remove are deleted
cleanup_old_responses(R, t, max_age_seconds) ==
    [rid \in DOMAIN R \ to_remove(R, t, max_age_seconds) |-> R[rid]]

\* ------------------------------------------------------------ pairing
\* the three outcomes of the session test of a pair request
pair_outcome(P, code, t) ==
    IF P = None \/ P[1].expires_at < t THEN "NoActiveSession"
    ELSE IF code # P[1].code THEN "InvalidCode"
    ELSE "ok"

\* a pairing that leaves its session open
session_kept(P) == P

\* line 200 / 485: the session once a token has been issued
session_after_pair(P) == None

pair_status(kind, outcome) ==
    CASE outcome = "ok" -> 200
      [] outcome = "NoActiveSession" -> IF kind = "http" THEN 410 ELSE 400
      [] outcome = "InvalidCode" -> IF kind = "http" THEN 401 ELSE 403

\* ------------------------------------------------------ authentication
\* An Authorization header is absent, or is a scheme prefix followed by a
\* credential: startswith("Bearer ") looks at the prefix and
\* split(" ", 1)[1].strip() is the credential.
NoHeader == [present |-> FALSE, scheme |-> "", cred |-> BadToken]

BearerHeaders ==
    { [present |-> TRUE, scheme |-> "Bearer ", cred |-> c] :
        c \in {BadToken} \cup (1..ntok) }

Headers ==
    {NoHeader, [present |-> TRUE, scheme |-> "Basic ", cred |-> ntok]}
    \cup BearerHeaders

\* require_token (HTTP): Header(...) makes the header a required parameter,
\* which the framework answers with 422 when it is missing.
require_token(hdr, T, t) ==
    IF ~hdr.present THEN 422
    ELSE IF hdr.scheme # "Bearer " THEN 401
    ELSE IF validate_ret(T, hdr.cred, t) = None THEN 401
    ELSE 200

\* the authorization test of _handle_socket_request
socket_auth(hdr, T, t) ==
    IF ~hdr.present THEN 401
    ELSE IF hdr.scheme # "Bearer " THEN 401
    ELSE IF validate_ret(T, hdr.cred, t) = None THEN 401
    ELSE 200

\* validate is reached only with a Bearer header
auth_tokens(hdr, T, t) ==
    IF hdr.present /\ hdr.scheme = "Bearer "
    THEN validate_map(T, hdr.cred, t)
    ELSE T

\* -------------------------------------------------- credential queries
RECURSIVE collect_entries(_, _, _)
collect_entries(origin, V, i) ==
    IF i > Len(V) THEN << >>
    ELSE IF entry_matches(origin, V[i]) /\ V[i].encrypted.ok
         THEN << [entry_id |-> V[i].id,
                  website |-> V[i].website,
                  username |-> V[i].username,
                  password |-> V[i].encrypted.plain] >>
              \o collect_entries(origin, V, i + 1)
         ELSE collect_entries(origin, V, i + 1)

username_preview(entries) ==
    IF entries = << >> THEN None ELSE Some(entries[1].username)

AutoResult == [raised |-> FALSE, request_id |-> <<"auto">>,
               decision |-> "APPROVED", remember |-> TRUE]
RaisedResult == [raised |-> TRUE, request_id |-> << >>,
                 decision |-> "none", remember |-> FALSE]
ResultOf(response) ==
    [raised |-> FALSE, request_id |-> response.request_id,
     decision |-> response.decision, remember |-> response.remember]

\* a handler that releases the matched entries whatever the decision
transport_response_leaky(kind, entries, res) ==
    [status_code |-> 200, entries |-> entries, error |-> ""]

\* what the caller of request_approval answers to its client
transport_response(kind, entries, res) ==
    CASE kind = "http" ->
           IF res.raised
           THEN [status_code |-> 200, entries |-> << >>,
                 error |-> "Approval request failed"]
           ELSE IF res.decision = "APPROVED"
           THEN [status_code |-> 200, entries |-> entries, error |-> ""]
           ELSE [status_code |-> 200, entries |-> << >>,
                 error |-> IF res.decision = "DENIED"
                           THEN "Access denied" ELSE "Request timed out"]
      [] kind = "socket" ->
           IF res.raised
           THEN [status_code |-> 500, entries |-> << >>, error |-> "exception"]
           ELSE IF res.decision = "APPROVED"
           THEN [status_code |-> 200, entries |-> entries, error |-> ""]
           ELSE [status_code |-> 403, entries |-> << >>,
                 error |-> "User denied access"]
      [] OTHER ->
           [status_code |-> 0, entries |-> << >>, error |-> ""]

\* --------------------------------------------------------------- state
IdleWk == [pc |-> "idle", kind |-> "none", origin |-> << >>,
           fingerprint |-> << >>, rid |-> << >>, entries |-> << >>,
           hdr |-> NoHeader, code |-> 0, browser |-> None]

\* an incoming call is served by the first worker that is free (workers are
\* interchangeable threads)
Free(w) ==
    /\ wk[w].pc = "idle"
    /\ \A v \in Workers : v < w => wk[v].pc # "idle"

\* the HTTP listener runs its handlers one at a time on one event loop
HTTPFree == \A v \in Workers : wk[v].kind # "http"

\* a connection just accepted: nothing written, receive_message not yet
\* called
InitChan ==
    [wire |-> << >>, sent |-> << >>, reading |-> "length", length |-> 4,
     data |-> << >>, delivered |-> << >>, error |-> ""]

\* client connections to the domain socket
MaxConns == 2

\* BrowserBridgeService.__init__: no server, no thread.  http_alive and
\* sock_alive say whether a listener thread started earlier is still
\* running; busy, whether the HTTP event loop is inside a handler that
\* blocks (credentials_query waiting in request_approval).
InitSrv ==
    [server |-> FALSE, should_exit |-> FALSE, thread |-> FALSE,
     http_alive |-> FALSE, busy |-> FALSE,
     socket_server |-> FALSE, sock_open |-> FALSE, socket_thread |-> FALSE,
     sock_alive |-> FALSE, sock_file |-> FALSE,
     conns |-> [c \in 1..MaxConns |-> "none"]]

\* no worker is inside an operation, the lock is free
Outside == [structure |-> "none", op |-> "", tok |-> 0]

InitCrit == [at |-> [w \in Workers |-> Outside], lock |-> None]

\* no certificate material yet; the clock counts half days
NoFile == [state |-> "absent", serial |-> 0, not_valid_after |-> 0,
           mode |-> "none"]

\* pc: where a running generate_self_signed_cert stands in writing the files
InitCerts ==
    [clock |-> 0, cert |-> NoFile, key |-> NoFile, generated |-> 0,
     pc |-> "idle"]

InitExt ==
    /\ chan = InitChan
    /\ srv = InitSrv
    /\ crit = InitCrit
    /\ certs = InitCerts

Init ==
    /\ now = 0
    /\ tokens = << >>
    /\ tokenFile = save(<< >>)
    /\ ntok = 0
    /\ pairing = None
    /\ approvalFile \in {approval_save(EmptyDict), approval_save(EmptyList)}
    /\ approvals = approval_load(approvalFile)
    /\ pending = << >>
    /\ responses = << >>
    /\ handler = FALSE
    /\ vault = InitVault
    /\ wk = [w \in Workers |-> IdleWk]
    /\ nreq = 0
    /\ consumed = {}
    /\ InitExt
    /\ last = [op |-> "init"]

TickTo(limit) ==
    /\ now < limit
    /\ now' = now + 1
    /\ last' = [op |-> "tick"]
    /\ UNCHANGED <<tokenVars, pairing, consumed, approvalVars, vault, extVars, wk>>

Tick == TickTo(MaxTime)

\* the clock of the specifications in which no token has to expire
TickStamp == TickTo(MaxStamp)

\* ---------------------------------------------- Token Store operations
Validate(tok) ==
    /\ tokens' = validate_map(tokens, tok, now)
    /\ tokenFile' = IF tokens' # tokens THEN save(tokens') ELSE tokenFile
    /\ last' = [op |-> "validate", token |-> tok,
                ret |-> validate_ret(tokens, tok, now), at |-> now]
    /\ UNCHANGED <<now, ntok, pairing, consumed, approvalVars, vault, extVars, wk>>

RevokeToken(tok) ==
    /\ tokens' = revoke(tokens, tok)
    /\ tokenFile' = IF revoke_ret(tokens, tok) THEN save(tokens') ELSE tokenFile
    /\ last' = [op |-> "revoke", token |-> tok, ret |-> revoke_ret(tokens, tok)]
    /\ UNCHANGED <<now, ntok, pairing, consumed, approvalVars, vault, extVars, wk>>

ListTokens ==
    /\ last' = [op |-> "list_tokens", ret |-> list_tokens(tokens, now), at |-> now]
    /\ UNCHANGED <<now, tokenVars, pairing, consumed, approvalVars, vault, extVars, wk>>

\* ------------------------------------------------------------- pairing
GeneratePairingCode(c) ==
    /\ pairing' = Some([code |-> c, expires_at |-> now + PairingWindow])
    /\ last' = [op |-> "generate_pairing_code", code |-> c]
    /\ UNCHANGED <<now, tokenVars, consumed, approvalVars, vault, extVars, wk>>

\* pair_endpoint and the /v1/pair branch of _handle_socket_request.  In
\* issue_token the clock is read twice, for issued_at and for expires_at.
Pair(kind, code, fingerprint, browser) ==
    LET outcome == pair_outcome(pairing, code, now) IN
    /\ kind = "http" => HTTPFree
    /\ IF outcome = "ok"
       THEN /\ ntok < NumTokens
            /\ \E t2 \in {now, now + 1} :
                 /\ t2 <= MaxTime
                 /\ now' = t2
                 /\ tokens' = issue_token(tokens, ntok + 1, fingerprint,
                                          browser, now, t2)
            /\ tokenFile' = save(tokens')
            /\ ntok' = ntok + 1
            /\ pairing' = session_after_pair(pairing)
            /\ consumed' = consumed \cup {code}
            /\ last' = [op |-> "pair", kind |-> kind, code |-> code,
                        outcome |-> outcome,
                        status_code |-> pair_status(kind, outcome),
                        token |-> Some(ntok + 1)]
       ELSE /\ last' = [op |-> "pair", kind |-> kind, code |-> code,
                        outcome |-> outcome,
                        status_code |-> pair_status(kind, outcome),
                        token |-> None]
            /\ UNCHANGED <<now, tokenVars, pairing, consumed>>
    /\ UNCHANGED <<approvalVars, vault, extVars, wk>>

\* The pair handlers hold no lock and run on their own threads (the HTTP
\* server's thread, one thread per socket connection) next to the thread
\* that calls generate_pairing_code.  PairCheck is the session test (lines
\* 188-196, 479-482); PairIssue is issue_token and the clearing of the
\* session (lines 197-204, 484-489), which other threads can precede.
PairCheck(w, kind, code, fingerprint, browser) ==
    LET outcome == pair_outcome(pairing, code, now) IN
    /\ Free(w)
    /\ kind = "http" => HTTPFree
    /\ IF outcome = "ok"
       THEN /\ wk' = [wk EXCEPT ![w] =
                        [IdleWk EXCEPT !.pc = "issue", !.kind = kind,
                                       !.fingerprint = fingerprint,
                                       !.code = code, !.browser = browser]]
            /\ last' = [op |-> "pair_check", w |-> w, kind |-> kind,
                        code |-> code]
       ELSE /\ wk' = wk
            /\ last' = [op |-> "pair", kind |-> kind, code |-> code,
                        outcome |-> outcome,
                        status_code |-> pair_status(kind, outcome),
                        token |-> None]
    /\ UNCHANGED <<now, tokenVars, pairing, consumed, approvalVars, vault, extVars>>

PairIssue(w) ==
    /\ wk[w].pc = "issue"
    /\ ntok < NumTokens
    /\ \E t2 \in {now, now + 1} :
         /\ t2 <= MaxTime
         /\ now' = t2
         /\ tokens' = issue_token(tokens, ntok + 1, wk[w].fingerprint,
                                  wk[w].browser, now, t2)
    /\ tokenFile' = save(tokens')
    /\ ntok' = ntok + 1
    /\ pairing' = session_after_pair(pairing)
    /\ consumed' = consumed \cup {wk[w].code}
    /\ wk' = [wk EXCEPT ![w] = IdleWk]
    /\ last' = [op |-> "pair", kind |-> wk[w].kind, code |-> wk[w].code,
                outcome |-> "ok",
                status_code |-> pair_status(wk[w].kind, "ok"),
                token |-> Some(ntok + 1)]
    /\ UNCHANGED <<approvalVars, vault, extVars>>

\* status_endpoint, line 179: "pairing_active": bool(service._pairing)
pairing_active(P) == P # None

\* GET /v1/status
Status ==
    /\ last' = [op |-> "status", pairing_active |-> pairing_active(pairing),
                at |-> now]
    /\ UNCHANGED <<now, tokenVars, pairing, consumed, approvalVars, vault,
                   extVars, wk>>

\* ------------------------------------------------------------ restart
\* The process starts again: TokenStore and ApprovalStore are constructed
\* over their files; the pairing session, the pending and response maps and
\* the prompt handler are not persisted.
Restart ==
    /\ tokens' = load(tokenFile)
    /\ approvals' = approval_load(approvalFile)
    /\ pairing' = None
    /\ pending' = << >>
    /\ responses' = << >>
    /\ handler' = FALSE
    /\ wk' = [w \in Workers |-> IdleWk]
    /\ last' = [op |-> "restart"]
    /\ UNCHANGED <<now, tokenFile, ntok, approvalFile, nreq, vault, extVars, consumed>>

\* ------------------------------------------------------ Approval Engine
SetPromptHandler(b) ==
    /\ handler' = b
    /\ last' = [op |-> "set_prompt_handler", set |-> b]
    /\ UNCHANGED <<now, tokenVars, pairing, consumed, approvals, approvalFile, pending,
                   responses, nreq, vault, extVars, wk>>

\* what is recorded when a request_approval call (made directly or by a
\* credentials query) has returned to its caller
Completed(w, kind, hdr, origin, fingerprint, entries, res, outcome) ==
    [op |-> IF kind = "direct" THEN "request_approval" ELSE "query",
     w |-> w, kind |-> kind, origin |-> origin, fingerprint |-> fingerprint,
     hdr |-> hdr,
     status_code |-> transport_response(kind, entries, res).status_code,
     executed |-> TRUE,
     called |-> TRUE, res |-> res, outcome |-> outcome,
     prompted |-> outcome.kind \in {"raise", "none", "response"},
     matched |-> entries,
     response |-> transport_response(kind, entries, res)]

\* request_approval, lines 178-205: up to the call of the prompt handler
RequestBegin(w, kind, hdr, origin, browser, fingerprint, entries, entry_count) ==
    IF is_approved_raises(approvals)
    THEN /\ last' = Completed(w, kind, hdr, origin, fingerprint, entries,
                              RaisedResult, [kind |-> "raised"])
         /\ UNCHANGED <<approvals, approvalFile, pending, responses, handler,
                        nreq, wk>>
    ELSE IF is_approved(approvals, origin, fingerprint)
    THEN /\ last' = Completed(w, kind, hdr, origin, fingerprint, entries,
                              AutoResult, [kind |-> "auto"])
         /\ UNCHANGED <<approvals, approvalFile, pending, responses, handler,
                        nreq, wk>>
    ELSE /\ nreq < MaxRequests
         /\ nreq' = nreq + 1
         /\ pending' = Put(pending, request_id(origin, now),
                           ApprovalRequest(origin, browser, fingerprint, now,
                                           entry_count,
                                           username_preview(entries)))
         /\ wk' = [wk EXCEPT ![w] =
                     [pc |-> IF handler THEN "prompt" ELSE "nohandler",
                      kind |-> kind, origin |-> origin,
                      fingerprint |-> fingerprint,
                      rid |-> request_id(origin, now), entries |-> entries,
                      hdr |-> hdr, code |-> 0, browser |-> Some(browser)]]
         /\ last' = [op |-> IF handler THEN "prompt" ELSE "pending",
                     w |-> w, kind |-> kind, origin |-> origin,
                     fingerprint |-> fingerprint,
                     rid |-> request_id(origin, now)]
         /\ UNCHANGED <<approvals, approvalFile, responses, handler>>

\* a direct call of ApprovalManager.request_approval
RequestApproval(w, origin, fingerprint) ==
    /\ Free(w)
    /\ RequestBegin(w, "direct", NoHeader, origin, Unknown, fingerprint, << >>, 1)
    /\ UNCHANGED <<now, tokenVars, pairing, consumed, vault, extVars>>

\* request_approval, lines 206-238: the prompt handler returns or raises
HandlerReturns(w, outcome) ==
    LET rid == wk[w].rid
        resp == approval_response(approvals, rid, outcome, now)
    IN
    /\ wk[w].pc = "prompt"
    /\ approvals' = approval_store_after(approvals, wk[w].origin,
                                         wk[w].fingerprint, outcome, now)
    /\ approvalFile' = IF handler_succeeds(approvals, outcome) /\ outcome.remember
                       THEN approval_save(approvals') ELSE approvalFile
    /\ responses' = Put(responses, rid, resp)
    /\ pending' = Remove(pending, rid)
    /\ wk' = [wk EXCEPT ![w] = IdleWk]
    /\ last' = Completed(w, wk[w].kind, wk[w].hdr, wk[w].origin, wk[w].fingerprint,
                         wk[w].entries, ResultOf(resp), outcome)
                 @@ [rid |-> rid]
    /\ UNCHANGED <<now, tokenVars, pairing, consumed, handler, nreq, vault, extVars>>

\* request_approval, lines 227-238 when no handler is registered
NoHandlerTimeout(w) ==
    LET rid == wk[w].rid
        resp == timeout_response(rid, now)
    IN
    /\ wk[w].pc = "nohandler"
    /\ responses' = Put(responses, rid, resp)
    /\ pending' = Remove(pending, rid)
    /\ wk' = [wk EXCEPT ![w] = IdleWk]
    /\ last' = Completed(w, wk[w].kind, wk[w].hdr, wk[w].origin, wk[w].fingerprint,
                         wk[w].entries, ResultOf(resp), [kind |-> "nohandler"])
                 @@ [rid |-> rid]
    /\ UNCHANGED <<now, tokenVars, pairing, consumed, approvals, approvalFile, handler,
                   nreq, vault, extVars>>

RespondToRequest(rid, decision, remember) ==
    /\ IF rid \notin DOMAIN pending
       THEN /\ last' = [op |-> "respond_to_request", rid |-> rid,
                        decision |-> decision, remember |-> remember,
                        raised |-> FALSE, ret |-> FALSE]
            /\ UNCHANGED <<approvals, approvalFile, pending, responses>>
       ELSE IF remember /\ remember_raises(approvals)
       THEN /\ last' = [op |-> "respond_to_request", rid |-> rid,
                        decision |-> decision, remember |-> remember,
                        raised |-> TRUE, ret |-> FALSE]
            /\ UNCHANGED <<approvals, approvalFile, pending, responses>>
       ELSE /\ approvals' = IF remember
                            THEN remember_approval(approvals,
                                     pending[rid].origin,
                                     pending[rid].fingerprint,
                                     decision = "APPROVED", now)
                            ELSE approvals
            /\ approvalFile' = IF remember THEN approval_save(approvals')
                               ELSE approvalFile
            /\ responses' = Put(responses, rid,
                                ApprovalResponse(rid, decision, remember, now))
            /\ pending' = Remove(pending, rid)
            /\ last' = [op |-> "respond_to_request", rid |-> rid,
                        decision |-> decision, remember |-> remember,
                        raised |-> FALSE, ret |-> TRUE]
    /\ UNCHANGED <<now, tokenVars, pairing, consumed, handler, nreq, vault, extVars, wk>>

\* cleanup_old_responses: `removed` counts the deleted ids
CleanupOldResponses(max_age_seconds) ==
    /\ responses' = cleanup_old_responses(responses, now, max_age_seconds)
    /\ last' = [op |-> "cleanup_old_responses",
                max_age_seconds |-> max_age_seconds, at |-> now,
                ret |-> Cardinality(to_remove(responses, now, max_age_seconds))]
    /\ UNCHANGED <<now, tokenVars, pairing, consumed, approvals, approvalFile,
                   pending, handler, nreq, vault, extVars, wk>>

\* ------------------------------- Remembered Decision Store operations
RememberApproval(origin, fingerprint, approved) ==
    /\ IF remember_raises(approvals)
       THEN /\ last' = [op |-> "remember_approval", origin |-> origin,
                        fingerprint |-> fingerprint, raised |-> TRUE]
            /\ UNCHANGED <<approvals, approvalFile>>
       ELSE /\ approvals' = remember_approval(approvals, origin, fingerprint,
                                              approved, now)
            /\ approvalFile' = approval_save(approvals')
            /\ last' = [op |-> "remember_approval", origin |-> origin,
                        fingerprint |-> fingerprint, raised |-> FALSE]
    /\ UNCHANGED <<now, tokenVars, pairing, consumed, pending, responses, handler, nreq,
                   vault, extVars, wk>>

\* a direct call of ApprovalStore.is_approved
IsApproved(origin, fingerprint) ==
    /\ last' = [op |-> "is_approved", origin |-> origin,
                fingerprint |-> fingerprint,
                raised |-> is_approved_raises(approvals),
                ret |-> /\ ~is_approved_raises(approvals)
                        /\ is_approved(approvals, origin, fingerprint)]
    /\ UNCHANGED <<now, tokenVars, pairing, consumed, approvalVars, vault, extVars, wk>>

RevokeApproval(origin, fingerprint) ==
    /\ approvals' = revoke_approval(approvals, origin, fingerprint)
    /\ approvalFile' = IF revoke_approval_ret(approvals, origin, fingerprint)
                       THEN approval_save(approvals') ELSE approvalFile
    /\ last' = [op |-> "revoke_approval", origin |-> origin,
                fingerprint |-> fingerprint,
                ret |-> revoke_approval_ret(approvals, origin, fingerprint)]
    /\ UNCHANGED <<now, tokenVars, pairing, consumed, pending, responses, handler, nreq,
                   vault, extVars, wk>>

ClearAll ==
    /\ approvals' = clear_all(approvals)
    /\ approvalFile' = approval_save(approvals')
    /\ last' = [op |-> "clear_all", ret |-> clear_all_ret(approvals)]
    /\ UNCHANGED <<now, tokenVars, pairing, consumed, pending, responses, handler, nreq,
                   vault, extVars, wk>>

\* ------------------------------------------------ authenticated requests
\* what is recorded for a request that ended before request_approval
Answered(op, w, kind, hdr, origin, status, executed, matched) ==
    [op |-> op, w |-> w, kind |-> kind, hdr |-> hdr, origin |-> origin,
     status_code |-> status, executed |-> executed, called |-> FALSE,
     prompted |-> FALSE, matched |-> matched,
     response |-> [status_code |-> status, entries |-> << >>, error |-> ""]]

\* the entry dicts of the HTTP handler also carry a label and the
\* fingerprint of the token
http_entries(entries, record) ==
    [i \in DOMAIN entries |->
        entries[i] @@ [label |-> entries[i].website,
                       token_id |-> record.fingerprint]]

\* POST /v1/credentials/query
QueryHTTP(w, hdr, origin) ==
    LET st == require_token(hdr, tokens, now)
        rec == validate_ret(tokens, hdr.cred, now)[1]
        entries == http_entries(collect_entries(Lower(origin), vault, 1), rec)
    IN
    /\ Free(w)
    /\ HTTPFree
    /\ tokens' = auth_tokens(hdr, tokens, now)
    /\ tokenFile' = IF tokens' # tokens THEN save(tokens') ELSE tokenFile
    /\ IF st # 200
       THEN /\ last' = Answered("query", w, "http", hdr, origin, st, FALSE, << >>)
            /\ UNCHANGED <<approvalVars, wk>>
       ELSE IF entries = << >>
       THEN /\ last' = Answered("query", w, "http", hdr, Lower(origin), 200,
                                TRUE, << >>)
            /\ UNCHANGED <<approvalVars, wk>>
       ELSE RequestBegin(w, "http", hdr, Lower(origin), rec.browser,
                         rec.fingerprint, entries, Len(entries))
    /\ UNCHANGED <<now, ntok, pairing, consumed, vault, extVars>>

\* the /v1/credentials/query branch of _handle_socket_request
QuerySocket(w, hdr, origin) ==
    LET st == socket_auth(hdr, tokens, now)
        rec == validate_ret(tokens, hdr.cred, now)[1]
        entries == collect_entries(origin, vault, 1)
    IN
    /\ Free(w)
    /\ tokens' = auth_tokens(hdr, tokens, now)
    /\ tokenFile' = IF tokens' # tokens THEN save(tokens') ELSE tokenFile
    /\ IF st # 200
       THEN /\ last' = Answered("query", w, "socket", hdr, origin, st, FALSE,
                                << >>)
            /\ UNCHANGED <<approvalVars, wk>>
       ELSE RequestBegin(w, "socket", hdr, origin, rec.browser, rec.fingerprint,
                         entries, Len(entries))
    /\ UNCHANGED <<now, ntok, pairing, consumed, vault, extVars>>

\* POST /v1/audit/report and POST /v1/clipboard/clear
Acknowledge(op, hdr) ==
    LET st == require_token(hdr, tokens, now) IN
    /\ HTTPFree
    /\ tokens' = auth_tokens(hdr, tokens, now)
    /\ tokenFile' = IF tokens' # tokens THEN save(tokens') ELSE tokenFile
    /\ last' = Answered(op, "none", "http", hdr, << >>, st, st = 200, << >>)
    /\ UNCHANGED <<now, ntok, pairing, consumed, approvalVars, vault, extVars, wk>>

AuditReport(hdr) == Acknowledge("audit_report", hdr)

ClipboardClear(hdr) == Acknowledge("clipboard_clear", hdr)

\* POST /v1/credentials/check
credentials_check(origin, username, V) ==
    \E i \in DOMAIN V :
        /\ entry_matches(Lower(origin), V[i])
        /\ V[i].username = username

CredentialsCheck(hdr, origin, username) ==
    LET st == require_token(hdr, tokens, now) IN
    /\ HTTPFree
    /\ tokens' = auth_tokens(hdr, tokens, now)
    /\ tokenFile' = IF tokens' # tokens THEN save(tokens') ELSE tokenFile
    /\ last' = IF st # 200
               THEN Answered("check", "none", "http", hdr, origin, st, FALSE,
                             << >>)
               ELSE IF origin = << >> \/ username = << >>
               THEN Answered("check", "none", "http", hdr, origin, 400, TRUE,
                             << >>)
               ELSE Answered("check", "none", "http", hdr, origin, 200, TRUE,
                             << >>)
                    @@ [exists |-> credentials_check(origin, username, vault),
                        username |-> username]
    /\ UNCHANGED <<now, ntok, pairing, consumed, approvalVars, vault, extVars, wk>>

\* POST /v1/credentials/store
\* payload.get("metadata", {}): a dict with optional url and saved_at, or
\* a JSON null, on which metadata.get raises
NoMetadata == [isdict |-> TRUE, url |-> << >>, saved_at |-> << >>]

NullMetadata == [isdict |-> FALSE, url |-> << >>, saved_at |-> << >>]

StorePayload(o, t, u, p) ==
    [origin |-> o, title |-> t, username |-> u, password |-> p,
     metadata |-> NoMetadata]

StorePayloads ==
    { StorePayload(<< >>, << >>, <<"u">>, <<"p">>),
      StorePayload(<<"z">>, << >>, << >>, <<"p">>),
      StorePayload(<<"z">>, << >>, <<"u">>, << >>),
      StorePayload(<<"z">>, << >>, <<"u">>, <<"p">>),
      StorePayload(<<"z">>, <<"a">>, <<"u">>, <<"p">>),
      [StorePayload(<<"z">>, << >>, <<"u">>, <<"p">>)
          EXCEPT !.metadata = [isdict |-> TRUE, url |-> <<"h">>,
                               saved_at |-> <<"1">>]],
      [StorePayload(<<"z">>, << >>, <<"u">>, <<"p">>)
          EXCEPT !.metadata = NullMetadata] }

\* "\n".join(notes_parts)
Join(parts) ==
    LET RECURSIVE join(_)
        join(i) == IF i > Len(parts) THEN << >>
                   ELSE IF i = Len(parts) THEN parts[i]
                   ELSE parts[i] \o <<"\n">> \o join(i + 1)
    IN  join(1)

store_notes(payload, record) ==
    LET metadata == payload.metadata
        url == IF metadata.url # << >>
               THEN << <<"U", "R", "L", ":", " ">> \o metadata.url >>
               ELSE << >>
        saved == IF metadata.saved_at # << >>
                 THEN << <<"S", "a", "v", "e", "d", ":", " ">>
                         \o metadata.saved_at >>
                 ELSE << >>
        source == << <<"S", "o", "u", "r", "c", "e", ":", " ", "B", "r", "o",
                       "w", "s", "e", "r", " ", "E", "x", "t", "e", "n", "s",
                       "i", "o", "n", " ", "(">> \o record.browser \o <<")">> >>
    IN  Join(url \o saved \o source)

\* an entry whose site is always the origin, whatever the title
store_entry_origin(payload, record, V) ==
    [id |-> Len(V) + 1,
     website |-> payload.origin,
     username |-> payload.username,
     encrypted |-> [ok |-> TRUE, plain |-> payload.password],
     notes |-> store_notes(payload, record)]

store_entry(payload, record, V) ==
    [id |-> Len(V) + 1,
     website |-> IF payload.title # << >> THEN payload.title ELSE payload.origin,
     username |-> payload.username,
     encrypted |-> [ok |-> TRUE, plain |-> payload.password],
     notes |-> store_notes(payload, record)]

store_rejected(payload) ==
    payload.origin = << >> \/ payload.username = << >> \/ payload.password = << >>

\* encrypt_password may raise (encrypted |-> FALSE); so does metadata.get
\* on a null; either way the handler answers 500 before add_password
CredentialsStore(hdr, payload) ==
    LET st == require_token(hdr, tokens, now)
        rec == validate_ret(tokens, hdr.cred, now)[1]
        answer(code, executed) ==
            Answered("store", "none", "http", hdr, payload.origin, code,
                     executed, << >>) @@ [payload |-> payload]
    IN
    /\ HTTPFree
    /\ tokens' = auth_tokens(hdr, tokens, now)
    /\ tokenFile' = IF tokens' # tokens THEN save(tokens') ELSE tokenFile
    /\ IF st # 200
       THEN /\ last' = answer(st, FALSE)
            /\ vault' = vault
       ELSE IF store_rejected(payload)
       THEN /\ last' = answer(400, TRUE)
            /\ vault' = vault
       ELSE \E encrypted \in BOOLEAN :
              IF ~encrypted \/ ~payload.metadata.isdict
              THEN /\ last' = answer(500, TRUE)
                   /\ vault' = vault
              ELSE /\ Len(vault) < MaxVault
                   /\ vault' = Append(vault, store_entry(payload, rec, vault))
                   /\ last' = answer(200, TRUE)
    /\ UNCHANGED <<now, ntok, pairing, consumed, approvalVars, wk, extVars>>

\* ------------------------------------------------------- specification
\* the (origin, fingerprint) pairs of direct calls: two different pairs
\* whose store key f"{origin}:{fingerprint}" is the same string
Pairs ==
    { <<(<<"a">>), (<<"b", ":", "c">>)>>,
      <<(<<"a", ":", "b">>), (<<"c">>)>> }

\* the operations that take Depends(require_token) or the socket's
\* authorization test
AuthOps == {"query", "check", "store", "audit_report", "clipboard_clear"}

\* credential queries that do not pass authentication
Unauthorized(hdr) ==
    \/ ~hdr.present
    \/ hdr.scheme # "Bearer "
    \/ validate_ret(tokens, hdr.cred, now) = None

TokenStoreNext ==
    \/ \E tok \in {BadToken} \cup (1..ntok) : Validate(tok)
    \/ \E tok \in {BadToken} \cup (1..ntok) : RevokeToken(tok)
    \/ ListTokens

PairingNext ==
    \/ \E c \in Codes : GeneratePairingCode(c)
    \/ \E kind \in {"http", "socket"}, c \in Codes, cl \in Clients :
          Pair(kind, c, cl.fingerprint, cl.browser)

EngineNext ==
    \/ \E b \in BOOLEAN : SetPromptHandler(b)
    \/ \E w \in Workers, p \in Pairs : RequestApproval(w, p[1], p[2])
    \/ \E w \in Workers, outcome \in HandlerOutcomes : HandlerReturns(w, outcome)
    \/ \E w \in Workers : NoHandlerTimeout(w)
    \/ \E rid \in DOMAIN pending \cup DOMAIN responses,
          d \in {"APPROVED", "DENIED"}, r \in BOOLEAN :
          RespondToRequest(rid, d, r)

DecisionStoreNext ==
    \/ \E p \in Pairs, b \in BOOLEAN : RememberApproval(p[1], p[2], b)
    \/ \E p \in Pairs : RevokeApproval(p[1], p[2])
    \/ ClearAll

QueryNext ==
    \/ \E w \in Workers, hdr \in BearerHeaders, o \in Origins :
          QueryHTTP(w, hdr, o)
    \/ \E w \in Workers, hdr \in BearerHeaders, o \in Origins :
          QuerySocket(w, hdr, o)

RejectedQueryNext ==
    \/ \E w \in Workers, hdr \in Headers :
          Unauthorized(hdr) /\ QueryHTTP(w, hdr, <<"a">>)
    \/ \E w \in Workers, hdr \in Headers :
          Unauthorized(hdr) /\ QuerySocket(w, hdr, <<"a">>)

ReadOnlyNext ==
    \/ \E hdr \in Headers : AuditReport(hdr)
    \/ \E hdr \in Headers : ClipboardClear(hdr)
    \/ \E hdr \in Headers, o \in {<< >>, <<"a">>} :
          CredentialsCheck(hdr, o, <<"u">>)

StoreNext ==
    \E hdr \in Headers, payload \in StorePayloads :
        CredentialsStore(hdr, payload)

\* requests to store a credential that are refused
RejectedStoreNext ==
    \E hdr \in Headers,
       payload \in { StorePayload(<< >>, << >>, <<"u">>, <<"p">>),
                     StorePayload(<<"z">>, << >>, <<"u">>, <<"p">>) } :
        /\ Unauthorized(hdr) \/ store_rejected(payload)
        /\ CredentialsStore(hdr, payload)

\* the Approval Engine and its store, called directly
NextApproval == TickStamp \/ EngineNext \/ DecisionStoreNext

SpecApproval == Init /\ [][NextApproval]_vars

\* the response history: requests answered with no handler registered or
\* through respond_to_request, and the purge of old responses
NextCleanup ==
    \/ Tick
    \/ \E w \in Workers, p \in Pairs : RequestApproval(w, p[1], p[2])
    \/ \E w \in Workers : NoHandlerTimeout(w)
    \/ \E rid \in DOMAIN pending, d \in {"APPROVED", "DENIED"}, r \in BOOLEAN :
          RespondToRequest(rid, d, r)
    \/ \E max_age_seconds \in 0..1 : CleanupOldResponses(max_age_seconds)

SpecCleanup == Init /\ [][NextCleanup]_vars

\* the Token Store, the pairing session and the requests that need no approval
NextTokens ==
    \/ Tick \/ TokenStoreNext \/ PairingNext \/ ReadOnlyNext
    \/ RejectedStoreNext \/ RejectedQueryNext

SpecTokens == Init /\ [][NextTokens]_vars

\* credential queries on both transports, from pairing to the answer
NextBridge ==
    \/ TickStamp \/ QueryNext
    \/ GeneratePairingCode(1)
    \/ \E kind \in {"http", "socket"}, cl \in Clients :
          ntok < 1 /\ Pair(kind, 1, cl.fingerprint, cl.browser)
    \/ \E tok \in 1..ntok : RevokeToken(tok)
    \/ \E b \in BOOLEAN : SetPromptHandler(b)
    \/ \E w \in Workers, outcome \in HandlerOutcomes : HandlerReturns(w, outcome)
    \/ \E w \in Workers : NoHandlerTimeout(w)

SpecBridge == Init /\ [][NextBridge]_vars

\* the pairing session with its handlers running on concurrent threads
NextPairing ==
    \/ Tick
    \/ \E c \in Codes : GeneratePairingCode(c)
    \/ \E w \in Workers, kind \in {"http", "socket"}, c \in Codes,
          cl \in Clients : PairCheck(w, kind, c, cl.fingerprint, cl.browser)
    \/ \E w \in Workers : PairIssue(w)

SpecPairing == Init /\ [][NextPairing]_vars

\* the pairing session as the status endpoint reports it
NextStatus ==
    \/ Tick
    \/ \E c \in Codes : GeneratePairingCode(c)
    \/ \E kind \in {"http", "socket"}, c \in Codes, cl \in Clients :
          Pair(kind, c, cl.fingerprint, cl.browser)
    \/ Status

SpecStatus == Init /\ [][NextStatus]_vars

\* The matching rule as the specification words it: site or notes contains,
\* ignoring case, the origin, its bare domain or the domain's first label.
matching_rule(origin, site, notes) ==
    LET o == Lower(origin)
        needles == {o, origin_domain(o), origin_name(o)}
    IN  \E n \in needles :
            Contains(n, Lower(site)) \/ Contains(n, Lower(notes))

\* the match test as each handler applies it: credentials_query and
\* credentials_check lower-case the origin first (lines 211, 321), the
\* socket handler uses query.origin as received (line 507)
handler_matches(kind, origin, entry) ==
    IF kind = "socket"
    THEN entry_matches(origin, entry)
    ELSE entry_matches(Lower(origin), entry)

MatchOrigins ==
    { <<"a">>, <<"a", ".", "b">>, <<"A", ".", "b">>,
      HTTPS \o <<"a", ".", "b", "/", "x">> }
MatchSites == { << >>, <<"z">>, <<"A">>, <<"a", ".", "b", "/", "l">> }
MatchNotes == { << >>, <<"z">>, <<"a">>, <<"x", " ", "A", ".", "b">> }

\* one evaluation of the match test by a handler
Match(kind, origin, site, notes) ==
    /\ last' = [op |-> "match", kind |-> kind, origin |-> origin,
                site |-> site, notes |-> notes,
                ret |-> handler_matches(kind, origin,
                                        [website |-> site, notes |-> notes])]
    /\ UNCHANGED <<now, tokenVars, pairing, consumed, approvalVars, vault, extVars, wk>>

NextMatch ==
    \E kind \in {"http", "socket", "check"}, origin \in MatchOrigins,
       site \in MatchSites, notes \in MatchNotes :
        Match(kind, origin, site, notes)

SpecMatch == Init /\ [][NextMatch]_vars

\* ------------------------------------------------- domain socket framing
\* receive_message: a 4-byte big-endian length, then that many bytes of JSON
\* 10 * 1024 * 1024
MaxMessageLength == 10485760

\* int.from_bytes(length_data, byteorder="big")
from_bytes(bytes) ==
    LET RECURSIVE value(_)
        value(n) == IF n = 0 THEN 0 ELSE value(n - 1) * 256 + bytes[n]
    IN  value(Len(bytes))

\* a size test that also refuses a frame of exactly the limit
too_large_inclusive(message_length) == message_length >= MaxMessageLength

too_large(message_length) == message_length > MaxMessageLength

Min(a, b) == IF a < b THEN a ELSE b

\* The peer has written the bytes of sent and then available further bytes
\* before closing.  _recv_exact returns what it could read, up to the
\* number asked for.
receive_message(sent, available) ==
    LET length_data == SubSeq(sent, 1, Min(4, Len(sent)))
        message_length == from_bytes(length_data)
        data == Min(message_length, available)
    IN  IF length_data = << >>
        THEN [outcome |-> "OSError", message_length |-> 0, consumed |-> 0]
        ELSE IF too_large(message_length)
        THEN [outcome |-> "ValueError", message_length |-> message_length,
              consumed |-> 0]
        ELSE IF data = 0
        THEN [outcome |-> "OSError", message_length |-> message_length,
              consumed |-> 0]
        ELSE [outcome |-> "json.loads", message_length |-> message_length,
              consumed |-> data]

\* length prefixes around the limit (0x00A00000); the first byte stays
\* below 128 so that the value is an integer TLC can hold
FirstBytes == {0, 1, 127}

OtherBytes == {0, 1, 159, 160, 176, 255}

Prefixes ==
    { << >> } \cup
    { <<a>> : a \in FirstBytes } \cup
    { <<a, b>> : a \in FirstBytes, b \in OtherBytes } \cup
    { <<a, b, c>> : a \in {0, 160, 176}, b \in {0}, c \in {0, 1} } \cup
    { <<a, b, c, d>> : a \in FirstBytes, b \in {0, 159, 160, 176},
                        c \in {0, 255}, d \in OtherBytes }

BodySizes == {0, 1, MaxMessageLength - 1, MaxMessageLength, MaxMessageLength + 1}

ReceiveMessage(sent, available) ==
    /\ Len(sent) < 4 => available = 0
    /\ last' = [op |-> "receive_message", sent |-> sent,
                available |-> available]
                @@ receive_message(sent, available)
    /\ UNCHANGED <<now, tokenVars, pairing, consumed, approvalVars, vault, extVars, wk>>

NextFrame ==
    \E sent \in Prefixes, available \in BodySizes :
        ReceiveMessage(sent, available)

SpecFrame == Init /\ [][NextFrame]_vars

\* --------------------------------------- frames on one connection
\* A message is a JSON object: its members in insertion order, keys among
\* Keys, values among Values.
MaxFrames == 2

Keys == {"a", "b"}

Values == {0, 1}

Members == { <<k, v>> : k \in Keys, v \in Values }

Messages ==
    { << >> } \cup { <<x>> : x \in Members } \cup
    { q \in Members \X Members : q[1][1] # q[2][1] }

Digit == [v \in Values |-> IF v = 0 THEN "0" ELSE "1"]

\* json.dumps(message): {"a": 0, "b": 1}
dumps(message) ==
    LET item(x) == <<"\"", x[1], "\"", ":", " ", Digit[x[2]]>>
        RECURSIVE items(_)
        items(i) == IF i > Len(message) THEN << >>
                    ELSE IF i = Len(message) THEN item(message[i])
                    ELSE item(message[i]) \o <<",", " ">> \o items(i + 1)
    IN  <<"{">> \o items(1) \o <<"}">>

\* json.loads(text) for texts of that shape; None stands for
\* JSONDecodeError
loads(text) ==
    LET body == SubSeq(text, 2, Len(text) - 1)
        count == (Len(body) + 2) \div 8
        at(i) == SubSeq(body, 8 * (i - 1) + 1, 8 * (i - 1) + 6)
        item_ok(x) == /\ x[1] = "\"" /\ x[2] \in Keys /\ x[3] = "\""
                      /\ x[4] = ":" /\ x[5] = " " /\ x[6] \in {"0", "1"}
        sep_ok(i) == body[8 * i - 1] = "," /\ body[8 * i] = " "
    IN  IF Len(text) < 2 \/ text[1] # "{" \/ text[Len(text)] # "}"
        THEN None
        ELSE IF body = << >> THEN Some(<< >>)
        ELSE IF \/ (Len(body) + 2) % 8 # 0
                \/ \E i \in 1..count : ~item_ok(at(i))
                \/ \E i \in 1..(count - 1) : ~sep_ok(i)
        THEN None
        ELSE Some([i \in 1..count |->
                     <<at(i)[2], IF at(i)[6] = "0" THEN 0 ELSE 1>>])

\* str.encode("utf-8") and bytes.decode("utf-8") on the characters used
Ord ==
    [c \in {"{", "}", "\"", ":", ",", " ", "a", "b", "0", "1"} |->
        CASE c = "{" -> 123 [] c = "}" -> 125 [] c = "\"" -> 34
          [] c = ":" -> 58 [] c = "," -> 44 [] c = " " -> 32
          [] c = "a" -> 97 [] c = "b" -> 98 [] c = "0" -> 48
          [] c = "1" -> 49]

encode(text) == [i \in 1..Len(text) |-> Ord[text[i]]]

Chr(byte) ==
    IF \E c \in DOMAIN Ord : Ord[c] = byte
    THEN CHOOSE c \in DOMAIN Ord : Ord[c] = byte
    ELSE "?"

decode(bytes) == [i \in 1..Len(bytes) |-> Chr(bytes[i])]

\* len(data).to_bytes(4, byteorder="big")
to_bytes(n) ==
    <<(n \div 16777216) % 256, (n \div 65536) % 256, (n \div 256) % 256,
      n % 256>>

\* sock.sendall(length + data)
send_message(wire, message) ==
    LET data == encode(dumps(message))
    IN  wire \o to_bytes(Len(data)) \o data

\* a read that asks for the whole length again on every turn of the loop
recv_size_whole(length, data) == length

\* _recv_exact: sock.recv(length - len(data))
recv_size(length, data) == length - Len(data)

SendMessage(message) ==
    /\ Len(chan.sent) < MaxFrames
    /\ chan.error = ""
    /\ chan' = [chan EXCEPT !.wire = send_message(@, message),
                            !.sent = Append(@, message)]
    /\ UNCHANGED <<now, tokenVars, pairing, consumed, approvalVars, vault, wk,
                   srv, crit, certs, last>>

\* One sock.recv inside _recv_exact returns n bytes, at least one and at
\* most the number asked for.  When the length prefix is complete the size
\* test is made; when the body is complete it is decoded and returned, and
\* the reader calls receive_message again.
Recv(n) ==
    LET data == chan.data \o SubSeq(chan.wire, 1, n)
        wire == SubSeq(chan.wire, n + 1, Len(chan.wire))
        message_length == from_bytes(data)
        message == loads(decode(data))
    IN
    /\ chan.error = ""
    /\ n >= 1
    /\ n <= Min(recv_size(chan.length, chan.data), Len(chan.wire))
    /\ chan' =
         IF Len(data) < chan.length
         THEN [chan EXCEPT !.wire = wire, !.data = data]
         ELSE IF chan.reading = "length"
         THEN IF too_large(message_length)
              THEN [chan EXCEPT !.wire = wire, !.data = << >>,
                                !.error = "ValueError"]
              ELSE IF message_length = 0
              THEN [chan EXCEPT !.wire = wire, !.data = << >>,
                                !.error = "OSError"]
              ELSE [chan EXCEPT !.wire = wire, !.data = << >>,
                                !.reading = "body",
                                !.length = message_length]
         ELSE IF message = None
              THEN [chan EXCEPT !.wire = wire, !.data = << >>,
                                !.error = "JSONDecodeError"]
              ELSE [chan EXCEPT !.wire = wire, !.data = << >>,
                                !.reading = "length", !.length = 4,
                                !.delivered = Append(@, message[1])]
    /\ UNCHANGED <<now, tokenVars, pairing, consumed, approvalVars, vault, wk,
                   srv, crit, certs, last>>

NextChannel ==
    \/ \E message \in Messages : SendMessage(message)
    \/ \E n \in 1..18 : Recv(n)

SpecChannel == Init /\ [][NextChannel]_vars

\* ------------------------------------------------ start and stop
is_running(S) ==
    \/ S.server /\ S.thread /\ S.http_alive
    \/ S.socket_server /\ S.socket_thread /\ S.sock_alive

\* start(): the model follows one thread per listener, so it starts the
\* service when no thread of an earlier run is left.  created is whether
\* create_socket_server succeeded.
Start(enable_domain_socket, created) ==
    /\ ~is_running(srv)
    /\ ~srv.http_alive /\ ~srv.sock_alive
    /\ srv' = IF enable_domain_socket /\ created
              THEN [srv EXCEPT !.server = TRUE, !.should_exit = FALSE,
                               !.thread = TRUE, !.http_alive = TRUE,
                               !.socket_server = TRUE, !.sock_open = TRUE,
                               !.socket_thread = TRUE, !.sock_alive = TRUE,
                               !.sock_file = TRUE]
              ELSE [srv EXCEPT !.server = TRUE, !.should_exit = FALSE,
                               !.thread = TRUE, !.http_alive = TRUE]
    /\ last' = [op |-> "start"]
    /\ UNCHANGED <<now, tokenVars, pairing, consumed, approvalVars, vault, wk,
                   chan, crit, certs>>

\* a handler that blocks the event loop begins and ends
HandlerBlocks ==
    /\ srv.http_alive /\ ~srv.busy
    /\ srv' = [srv EXCEPT !.busy = TRUE]
    /\ last' = [op |-> "handler_blocks"]
    /\ UNCHANGED <<now, tokenVars, pairing, consumed, approvalVars, vault, wk,
                   chan, crit, certs>>

HandlerUnblocks ==
    /\ srv.busy
    /\ srv' = [srv EXCEPT !.busy = FALSE]
    /\ last' = [op |-> "handler_unblocks"]
    /\ UNCHANGED <<now, tokenVars, pairing, consumed, approvalVars, vault, wk,
                   chan, crit, certs>>

\* stop().  exited: the uvicorn thread saw should_exit and ended within the
\* 3 seconds of join, which it cannot while the event loop is blocked.
\* woken: the close of the listening socket made the accept of the socket
\* thread return within the 3 seconds of join; a close from another thread
\* does not interrupt a blocked accept on every platform.
Stop(exited, woken) ==
    /\ srv.busy => ~exited
    /\ srv' = [srv EXCEPT
                 !.should_exit = @ \/ srv.server,
                 !.http_alive = @ /\ ~(srv.thread /\ exited),
                 !.busy = @ /\ ~(srv.thread /\ exited),
                 !.thread = FALSE,
                 !.server = FALSE,
                 !.sock_open = @ /\ ~srv.socket_server,
                 !.socket_server = FALSE,
                 !.sock_alive = @ /\ ~(srv.socket_thread /\ woken),
                 !.socket_thread = FALSE,
                 !.sock_file = FALSE,
                 !.conns = [c \in 1..MaxConns |->
                              IF srv.socket_server /\ @[c] = "queued"
                              THEN "reset" ELSE @[c]]]
    /\ last' = [op |-> "stop"]
    /\ UNCHANGED <<now, tokenVars, pairing, consumed, approvalVars, vault, wk,
                   chan, crit, certs>>

\* the uvicorn thread ends once it sees should_exit
HTTPThreadExits ==
    /\ srv.http_alive /\ srv.should_exit /\ ~srv.busy
    /\ srv' = [srv EXCEPT !.http_alive = FALSE]
    /\ last' = [op |-> "http_thread_exits"]
    /\ UNCHANGED <<now, tokenVars, pairing, consumed, approvalVars, vault, wk,
                   chan, crit, certs>>

\* _run_socket_server leaves its loop when accept fails on the closed
\* socket or when it finds _socket_server unset
SocketThreadExits ==
    /\ srv.sock_alive /\ ~srv.sock_open
    /\ srv' = [srv EXCEPT !.sock_alive = FALSE]
    /\ last' = [op |-> "socket_thread_exits"]
    /\ UNCHANGED <<now, tokenVars, pairing, consumed, approvalVars, vault, wk,
                   chan, crit, certs>>

\* a client connects to the socket file and waits in the listen queue
Connect(c) ==
    /\ srv.sock_open /\ srv.sock_file
    /\ srv.conns[c] = "none"
    /\ srv' = [srv EXCEPT !.conns[c] = "queued"]
    /\ last' = [op |-> "connect", conn |-> c]
    /\ UNCHANGED <<now, tokenVars, pairing, consumed, approvalVars, vault, wk,
                   chan, crit, certs>>

\* the connections that the listener thread is serving itself
served_by_listener(conns) ==
    { c \in DOMAIN conns : conns[c] \in {"reading", "prompt"} }

\* _run_socket_server hands every connection to a thread of its own and
\* goes back to accept
serving(conns) == {}

\* accept() returns the connection and a handler thread is started, which
\* waits in receive_message
Accept(c) ==
    /\ srv.sock_alive /\ srv.sock_open
    /\ serving(srv.conns) = {}
    /\ srv.conns[c] = "queued"
    /\ srv' = [srv EXCEPT !.conns[c] = "reading"]
    /\ last' = [op |-> "accept", conn |-> c]
    /\ UNCHANGED <<now, tokenVars, pairing, consumed, approvalVars, vault, wk,
                   chan, crit, certs>>

\* the request has arrived: the worker answers it, or (a query) waits for
\* the prompt handler first
Serve(c, prompts) ==
    /\ srv.conns[c] = "reading"
    /\ srv' = [srv EXCEPT !.conns[c] = IF prompts THEN "prompt"
                                       ELSE "answered"]
    /\ last' = [op |-> "serve", conn |-> c]
    /\ UNCHANGED <<now, tokenVars, pairing, consumed, approvalVars, vault, wk,
                   chan, crit, certs>>

PromptReturns(c) ==
    /\ srv.conns[c] = "prompt"
    /\ srv' = [srv EXCEPT !.conns[c] = "answered"]
    /\ last' = [op |-> "prompt_returns", conn |-> c]
    /\ UNCHANGED <<now, tokenVars, pairing, consumed, approvalVars, vault, wk,
                   chan, crit, certs>>

NextServer ==
    \/ \E c \in 1..MaxConns : Connect(c)
    \/ \E c \in 1..MaxConns : Accept(c)
    \/ \E c \in 1..MaxConns, prompts \in BOOLEAN : Serve(c, prompts)
    \/ \E c \in 1..MaxConns : PromptReturns(c)
    \/ \E enable_domain_socket, created \in BOOLEAN :
          Start(enable_domain_socket, created)
    \/ HandlerBlocks
    \/ HandlerUnblocks
    \/ \E exited, woken \in BOOLEAN : Stop(exited, woken)
    \/ HTTPThreadExits
    \/ SocketThreadExits

SpecServer == Init /\ [][NextServer]_vars

\* ------------------------------------- workers inside the shared structures
\* The operations of the stores as the steps of a worker thread.  TokenStore
\* and ApprovalStore take no lock; ApprovalManager takes self._lock around
\* every access to _pending and _responses.
InitLocks ==
    /\ now = 0
    /\ tokens = issue_token(issue_token(<< >>, 1, <<"c">>, None, 0, 0),
                            2, <<"c">>, None, 0, 0)
    /\ tokenFile = save(tokens)
    /\ ntok = 2
    /\ pairing = None
    /\ approvalFile = approval_save(EmptyDict)
    /\ approvals = approval_load(approvalFile)
    /\ pending = << >>
    /\ responses = << >>
    /\ handler = FALSE
    /\ vault = InitVault
    /\ wk = [w \in Workers |-> IdleWk]
    /\ nreq = 0
    /\ consumed = {}
    /\ InitExt
    /\ last = [op |-> "init"]

\* TokenStore.revoke, line 104: the membership test
RevokeBegin(w, tok) ==
    /\ crit.at[w] = Outside
    /\ IF tok \in DOMAIN tokens
       THEN /\ crit' = [crit EXCEPT !.at[w] = [structure |-> "tokens",
                                               op |-> "revoke", tok |-> tok]]
            /\ last' = [op |-> "revoke_begin", w |-> w, tok |-> tok]
       ELSE /\ crit' = crit
            /\ last' = [op |-> "revoke_token", w |-> w, tok |-> tok,
                        raised |-> FALSE, ret |-> FALSE]
    /\ UNCHANGED <<now, tokenVars, pairing, consumed, approvalVars, vault, wk,
                   chan, srv, certs>>

\* TokenStore.revoke, lines 105-107: pop, which raises KeyError when the
\* record has gone since the test, and _save
RevokeEnd(w) ==
    LET tok == crit.at[w].tok IN
    /\ crit.at[w].op = "revoke"
    /\ crit' = [crit EXCEPT !.at[w] = Outside]
    /\ IF tok \in DOMAIN tokens
       THEN /\ tokens' = revoke(tokens, tok)
            /\ tokenFile' = save(tokens')
            /\ last' = [op |-> "revoke_token", w |-> w, tok |-> tok,
                        raised |-> FALSE, ret |-> TRUE]
       ELSE /\ UNCHANGED <<tokens, tokenFile>>
            /\ last' = [op |-> "revoke_token", w |-> w, tok |-> tok,
                        raised |-> TRUE, ret |-> FALSE]
    /\ UNCHANGED <<now, ntok, pairing, consumed, approvalVars, vault, wk,
                   chan, srv, certs>>

\* ApprovalStore.remember_approval, lines 104-109: the item assignment
RememberBegin(w, origin, fingerprint, approved) ==
    /\ crit.at[w] = Outside
    /\ ~remember_raises(approvals)
    /\ approvals' = remember_approval(approvals, origin, fingerprint,
                                      approved, now)
    /\ crit' = [crit EXCEPT !.at[w] = [structure |-> "approvals",
                                       op |-> "remember", tok |-> 0]]
    /\ last' = [op |-> "remember_begin", w |-> w]
    /\ UNCHANGED <<now, tokenVars, pairing, consumed, approvalFile, pending,
                   responses, handler, nreq, vault, wk, chan, srv, certs>>

\* ApprovalStore.remember_approval, line 110: _save of the map as it is now
RememberEnd(w) ==
    /\ crit.at[w].op = "remember"
    /\ approvalFile' = approval_save(approvals)
    /\ crit' = [crit EXCEPT !.at[w] = Outside]
    /\ last' = [op |-> "remember_approval", w |-> w, raised |-> FALSE]
    /\ UNCHANGED <<now, tokenVars, pairing, consumed, approvals, pending,
                   responses, handler, nreq, vault, wk, chan, srv, certs>>

\* ApprovalManager.get_pending_requests: with self._lock
PendingBegin(w) ==
    /\ crit.at[w] = Outside
    /\ crit.lock = None
    /\ crit' = [crit EXCEPT !.lock = Some(w),
                            !.at[w] = [structure |-> "pending",
                                       op |-> "get_pending_requests",
                                       tok |-> 0]]
    /\ last' = [op |-> "lock_acquired", w |-> w]
    /\ UNCHANGED <<now, tokenVars, pairing, consumed, approvalVars, vault, wk,
                   chan, srv, certs>>

PendingEnd(w) ==
    /\ crit.at[w].op = "get_pending_requests"
    /\ crit' = [crit EXCEPT !.lock = None, !.at[w] = Outside]
    /\ last' = [op |-> "get_pending_requests", w |-> w,
                ret |-> { pending[k] : k \in DOMAIN pending }]
    /\ UNCHANGED <<now, tokenVars, pairing, consumed, approvalVars, vault, wk,
                   chan, srv, certs>>

NextLocks ==
    \/ \E w \in Workers, tok \in 1..NumTokens : RevokeBegin(w, tok)
    \/ \E w \in Workers : RevokeEnd(w)
    \/ \E w \in Workers, b \in BOOLEAN :
          RememberBegin(w, <<"a">>, <<"c">>, b)
    \/ \E w \in Workers : RememberEnd(w)
    \/ \E w \in Workers : PendingBegin(w)
    \/ \E w \in Workers : PendingEnd(w)

SpecLocks == InitLocks /\ [][NextLocks]_vars

\* ------------------------------------------------ TLS certificate
\* generate_self_signed_cert.  Times are counted in ticks of half a day.
DayTicks == 2

ValidityDays == 365

RenewDays == 30

MaxCerts == 3

\* timedelta.days: whole days, rounded down
days(ticks) == ticks \div DayTicks

\* lines 73-74: days_remaining > 30
reusable(cert, clock) == days(cert.not_valid_after - clock) > RenewDays

\* The files after the call, and whether anything was written.  The
\* private key file is tested for existence only; the certificate is
\* parsed, and a failure to parse it leads to regeneration.
generate_self_signed_cert(C) ==
    LET serial == C.generated + 1
        fresh == [C EXCEPT
                    !.generated = serial,
                    !.cert = [state |-> "valid", serial |-> serial,
                              not_valid_after |->
                                  C.clock + ValidityDays * DayTicks,
                              mode |-> "0644"],
                    !.key = [state |-> "valid", serial |-> serial,
                             not_valid_after |-> 0, mode |-> "0600"]]
    IN  IF /\ C.cert.state # "absent"
           /\ C.key.state # "absent"
           /\ C.cert.state = "valid"
           /\ reusable(C.cert, C.clock)
        THEN [files |-> C, wrote |-> FALSE]
        ELSE [files |-> fresh, wrote |-> TRUE]

EnsureCertificate ==
    LET r == generate_self_signed_cert(certs) IN
    /\ r.wrote => certs.generated < MaxCerts
    /\ certs' = r.files
    /\ last' = [op |-> "ensure_certificate", before |-> certs,
                wrote |-> r.wrote, cert |-> r.files.cert,
                key |-> r.files.key]
    /\ UNCHANGED <<now, tokenVars, pairing, consumed, approvalVars, vault, wk,
                   chan, srv, crit>>

\* the instants at which the certificate is looked at: 10 days, and the
\* days around 335 and 340 after a generation at 0
Instants ==
    { 10 * DayTicks, 334 * DayTicks, 334 * DayTicks + 1, 335 * DayTicks,
      335 * DayTicks + 1, 340 * DayTicks, ValidityDays * DayTicks,
      ValidityDays * DayTicks + 1 }

CertClock(t) ==
    /\ t > certs.clock
    /\ certs' = [certs EXCEPT !.clock = t]
    /\ last' = [op |-> "clock", t |-> t]
    /\ UNCHANGED <<now, tokenVars, pairing, consumed, approvalVars, vault, wk,
                   chan, srv, crit>>

\* a file is damaged on disk
CorruptFile(which) ==
    /\ certs[which].state = "valid"
    /\ certs' = [certs EXCEPT ![which].state = "corrupt"]
    /\ last' = [op |-> "corrupt", which |-> which]
    /\ UNCHANGED <<now, tokenVars, pairing, consumed, approvalVars, vault, wk,
                   chan, srv, crit>>

\* remove_cert
RemoveCert ==
    /\ certs' = [certs EXCEPT !.cert = NoFile, !.key = NoFile]
    /\ last' = [op |-> "remove_cert",
                ret |-> certs.cert # NoFile \/ certs.key # NoFile]
    /\ UNCHANGED <<now, tokenVars, pairing, consumed, approvalVars, vault, wk,
                   chan, srv, crit>>

\* open(path, "wb"): a file that exists keeps its permissions, a new file
\* gets 0666 masked by the process umask
mode_after_open(file, created) ==
    IF file.state = "absent" THEN created ELSE file.mode

\* lines 146-153: the private key is written
WriteKey(created) ==
    /\ certs.pc = "idle"
    /\ generate_self_signed_cert(certs).wrote
    /\ certs.generated < MaxCerts
    /\ certs' = [certs EXCEPT
                   !.pc = "key_written",
                   !.generated = certs.generated + 1,
                   !.key = [state |-> "valid", serial |-> certs.generated + 1,
                            not_valid_after |-> 0,
                            mode |-> mode_after_open(certs.key, created)]]
    /\ last' = [op |-> "write_key", created |-> created]
    /\ UNCHANGED <<now, tokenVars, pairing, consumed, approvalVars, vault, wk,
                   chan, srv, crit>>

\* lines 156-157: the certificate is written
WriteCert(created) ==
    /\ certs.pc = "key_written"
    /\ certs' = [certs EXCEPT
                   !.pc = "cert_written",
                   !.cert = [state |-> "valid", serial |-> certs.generated,
                             not_valid_after |->
                                 certs.clock + ValidityDays * DayTicks,
                             mode |-> mode_after_open(certs.cert, created)]]
    /\ last' = [op |-> "write_cert", created |-> created]
    /\ UNCHANGED <<now, tokenVars, pairing, consumed, approvalVars, vault, wk,
                   chan, srv, crit>>

\* lines 160-168: key_path.chmod(0o600), cert_path.chmod(0o644), return
SetPermissions ==
    /\ certs.pc = "cert_written"
    /\ certs' = [certs EXCEPT !.pc = "idle",
                              !.key.mode = "0600",
                              !.cert.mode = "0644"]
    /\ last' = [op |-> "generated", cert |-> certs'.cert, key |-> certs'.key]
    /\ UNCHANGED <<now, tokenVars, pairing, consumed, approvalVars, vault, wk,
                   chan, srv, crit>>

\* generate_self_signed_cert step by step, under a umask of 022 or of 077
NextPermissions ==
    \/ \E created \in {"0644", "0600"} : WriteKey(created)
    \/ \E created \in {"0644", "0600"} : WriteCert(created)
    \/ SetPermissions
    \/ \E t \in Instants : certs.pc = "idle" /\ CertClock(t)
    \/ certs.pc = "idle" /\ RemoveCert

SpecPermissions == Init /\ [][NextPermissions]_vars

NextCerts ==
    \/ EnsureCertificate
    \/ \E t \in Instants : CertClock(t)
    \/ \E which \in {"cert", "key"} : CorruptFile(which)
    \/ RemoveCert

SpecCerts == Init /\ [][NextCerts]_vars

\* ------------------------------------------------ payload encryption
\* PayloadEncryption.  Byte strings are symbolic: a ciphertext names the
\* key, nonce and plaintext it was made from; a tag authenticates exactly
\* one (key, nonce, ciphertext).
Secrets == {"S1", "S2"}

Nonces == {"n1", "n2"}

\* Python payloads with one member: {"a": 1}, {"a": [1, 2]},
\* {"a": (1, 2)} and {1: 1}
Payloads ==
    { [key |-> [type |-> "str", v |-> "a"], value |-> [type |-> "int", v |-> <<1>>]],
      [key |-> [type |-> "str", v |-> "a"], value |-> [type |-> "list", v |-> <<1, 2>>]],
      [key |-> [type |-> "str", v |-> "a"], value |-> [type |-> "tuple", v |-> <<1, 2>>]],
      [key |-> [type |-> "int", v |-> "1"], value |-> [type |-> "int", v |-> <<1>>]] }

\* a plaintext that is not JSON
NotJSON == [name |-> "", value |-> [kind |-> "garbage", v |-> << >>]]

\* json.dumps(payload, separators=(',', ':')): member names are strings,
\* lists and tuples are arrays
json_dumps(payload) ==
    [name |-> payload.key.v,
     value |-> [kind |-> IF payload.value.type \in {"list", "tuple"}
                         THEN "array" ELSE "number",
                v |-> payload.value.v]]

\* json.loads(plaintext); None stands for JSONDecodeError
json_loads(text) ==
    IF text.value.kind \notin {"array", "number"} THEN None
    ELSE Some([key |-> [type |-> "str", v |-> text.name],
               value |-> [type |-> IF text.value.kind = "array" THEN "list"
                                   ELSE "int",
                          v |-> text.value.v]])

\* base64: the encoder writes the canonical text; the decoder skips
\* characters outside the alphabet, so several texts give the same bytes;
\* a text cut short gives fewer bytes (or raises)
b64encode(bytes) == [bytes |-> bytes, extra |-> FALSE, cut |-> FALSE]

b64decode(text) == [v |-> text.bytes, short |-> text.cut]

\* HKDF(SHA256, length=32, salt=None, info=nonce).derive(shared_secret)
hkdf(shared_secret, nonce) == [secret |-> shared_secret, info |-> nonce]

\* AES-256-GCM
gcm_tag(key, nonce, ciphertext) ==
    [mac |-> <<key, nonce, ciphertext>>, flipped |-> FALSE]

gcm_encrypt(key, nonce, plaintext) ==
    LET ciphertext == [key |-> key, nonce |-> nonce, plaintext |-> plaintext,
                       flipped |-> FALSE]
    IN  [ciphertext |-> ciphertext, tag |-> gcm_tag(key, nonce, ciphertext)]

\* a decryption that releases the plaintext without verifying the tag
gcm_decrypt_unverified(key, nonce, ciphertext, tag) ==
    IF ciphertext.short \/ ciphertext.v.key # key THEN None
    ELSE Some(ciphertext.v.plaintext)

\* modes.GCM(nonce, tag) raises on a tag shorter than 16 bytes and on a
\* nonce that is too short; finalize raises InvalidTag unless the tag is
\* the one of this key, nonce and ciphertext.  None stands for raising.
gcm_decrypt(key, nonce, ciphertext, tag) ==
    IF tag.short \/ nonce.short \/ ciphertext.short THEN None
    ELSE IF tag.v # gcm_tag(key, nonce.v, ciphertext.v) THEN None
    ELSE Some(ciphertext.v.plaintext)

encrypt(payload, shared_secret, nonce) ==
    LET plaintext == json_dumps(payload)
        sealed == gcm_encrypt(hkdf(shared_secret, nonce), nonce, plaintext)
    IN  [ciphertext |-> b64encode(sealed.ciphertext),
         nonce |-> b64encode(nonce),
         tag |-> b64encode(sealed.tag)]

\* an envelope sealed with the secret around a plaintext that is not JSON
encrypt_garbage(shared_secret, nonce) ==
    LET sealed == gcm_encrypt(hkdf(shared_secret, nonce), nonce, NotJSON)
    IN  [ciphertext |-> b64encode(sealed.ciphertext),
         nonce |-> b64encode(nonce),
         tag |-> b64encode(sealed.tag)]

decrypt(encrypted, shared_secret) ==
    IF {"ciphertext", "nonce", "tag"} \ DOMAIN encrypted # {}
    THEN [raised |-> TRUE, ret |-> None]
    ELSE
    LET ciphertext == b64decode(encrypted.ciphertext)
        nonce == b64decode(encrypted.nonce)
        tag == b64decode(encrypted.tag)
        derived_key == hkdf(shared_secret, nonce.v)
        plaintext == gcm_decrypt(derived_key, nonce, ciphertext, tag)
    IN  IF plaintext = None THEN [raised |-> TRUE, ret |-> None]
        ELSE IF json_loads(plaintext[1]) = None
        THEN [raised |-> TRUE, ret |-> None]
        ELSE [raised |-> FALSE, ret |-> json_loads(plaintext[1])]

Fields == {"ciphertext", "nonce", "tag"}

\* what can happen to an envelope on its way
Mutations ==
    { [kind |-> k, field |-> ""] : k \in {"none", "not_json"} }
    \cup { [kind |-> "other_text", field |-> "ciphertext"] }
    \cup { [kind |-> k, field |-> f] :
              k \in {"flip", "missing", "truncated"}, f \in Fields }

OtherNonce(n) == CHOOSE m \in Nonces : m # n

tamper(encrypted, mutation, shared_secret, nonce) ==
    CASE mutation.kind = "none" -> encrypted
      [] mutation.kind = "other_text" ->
            [encrypted EXCEPT !.ciphertext.extra = TRUE]
      [] mutation.kind = "flip" /\ mutation.field = "nonce" ->
            [encrypted EXCEPT !.nonce.bytes = OtherNonce(@)]
      [] mutation.kind = "flip" /\ mutation.field # "nonce" ->
            [encrypted EXCEPT ![mutation.field].bytes.flipped = TRUE]
      [] mutation.kind = "not_json" -> encrypt_garbage(shared_secret, nonce)
      [] mutation.kind = "missing" ->
            [f \in Fields \ {mutation.field} |-> encrypted[f]]
      [] mutation.kind = "truncated" ->
            [encrypted EXCEPT ![mutation.field].cut = TRUE]

\* encrypt with one secret, then decrypt what arrives with another
Decrypt(payload, shared_secret, nonce, mutation, receiver_secret) ==
    LET arrived == tamper(encrypt(payload, shared_secret, nonce), mutation,
                          shared_secret, nonce)
    IN
    /\ last' = [op |-> "decrypt", payload |-> payload,
                shared_secret |-> shared_secret, nonce |-> nonce,
                mutation |-> mutation, receiver_secret |-> receiver_secret]
                @@ decrypt(arrived, receiver_secret)
    /\ UNCHANGED <<now, tokenVars, pairing, consumed, approvalVars, vault, wk,
                   extVars>>

NextPayload ==
    \E payload \in Payloads, shared_secret \in Secrets, nonce \in Nonces,
       mutation \in Mutations, receiver_secret \in Secrets :
        Decrypt(payload, shared_secret, nonce, mutation, receiver_secret)

SpecPayload == Init /\ [][NextPayload]_vars

\* the endpoints that read without asking for approval, over a vault with
\* an entry that cannot be decrypted and an entry described in its notes
CheckVault ==
    InitVault \o
    << [id |-> 3, website |-> <<"w">>, username |-> <<"n">>,
        encrypted |-> [ok |-> TRUE, plain |-> <<"q">>],
        notes |-> <<"m", "y", " ", "a">>] >>

InitReadOnly ==
    /\ now = 0
    /\ tokens = << >>
    /\ tokenFile = save(<< >>)
    /\ ntok = 0
    /\ pairing = None
    /\ approvalFile \in {approval_save(EmptyDict), approval_save(EmptyList)}
    /\ approvals = approval_load(approvalFile)
    /\ pending = << >>
    /\ responses = << >>
    /\ handler = FALSE
    /\ vault = CheckVault
    /\ wk = [w \in Workers |-> IdleWk]
    /\ nreq = 0
    /\ consumed = {}
    /\ InitExt
    /\ last = [op |-> "init"]

NextReadOnly ==
    \/ Tick
    \/ GeneratePairingCode(1)
    \/ \E kind \in {"http", "socket"}, cl \in Clients :
          ntok < 1 /\ Pair(kind, 1, cl.fingerprint, cl.browser)
    \/ \E hdr \in Headers : AuditReport(hdr)
    \/ \E hdr \in Headers : ClipboardClear(hdr)
    \/ \E hdr \in Headers,
          o \in {<< >>, <<"A">>, <<"a", ".", "b">>, <<"z">>},
          u \in {<< >>, <<"u">>, <<"v">>, <<"n">>} :
          CredentialsCheck(hdr, o, u)

SpecReadOnly == InitReadOnly /\ [][NextReadOnly]_vars

\* storing credentials into a vault that starts empty
InitStore ==
    /\ now = 0
    /\ tokens = << >>
    /\ tokenFile = save(<< >>)
    /\ ntok = 0
    /\ pairing = None
    /\ approvalFile = approval_save(EmptyDict)
    /\ approvals = approval_load(approvalFile)
    /\ pending = << >>
    /\ responses = << >>
    /\ handler = FALSE
    /\ vault = << >>
    /\ wk = [w \in Workers |-> IdleWk]
    /\ nreq = 0
    /\ consumed = {}
    /\ InitExt
    /\ last = [op |-> "init"]

NextStore ==
    \/ Tick
    \/ GeneratePairingCode(1)
    \/ \E cl \in Clients :
          ntok < 1 /\ Pair("http", 1, cl.fingerprint, cl.browser)
    \/ StoreNext

SpecStore == InitStore /\ [][NextStore]_vars

\* the two stores and their files, found in any condition at start-up
TokenFiles == {FileAbsent, FileMalformed, FileList}
ApprovalFiles == {FileAbsent, FileMalformed, FileList}

InitStores ==
    /\ now = 0
    /\ tokenFile \in TokenFiles
    /\ tokens = load(tokenFile)
    /\ ntok = 0
    /\ pairing = None
    /\ approvalFile \in ApprovalFiles
    /\ approvals = approval_load(approvalFile)
    /\ pending = << >>
    /\ responses = << >>
    /\ handler = FALSE
    /\ vault = InitVault
    /\ wk = [w \in Workers |-> IdleWk]
    /\ nreq = 0
    /\ consumed = {}
    /\ InitExt
    /\ last = [op |-> "init"]

NextStores ==
    \/ Tick
    \/ \E tok \in 1..ntok : Validate(tok)
    \/ \E tok \in 1..ntok : RevokeToken(tok)
    \/ GeneratePairingCode(1)
    \/ \E cl \in Clients : Pair("socket", 1, cl.fingerprint, cl.browser)
    \/ \E b \in BOOLEAN : RememberApproval(<<"a">>, <<"c">>, b)
    \/ IsApproved(<<"a">>, <<"c">>)
    \/ RevokeApproval(<<"a">>, <<"c">>)
    \/ ClearAll
    \/ Restart

SpecStores == InitStores /\ [][NextStores]_vars

\* every operation of the bridge
Next == NextApproval \/ NextTokens \/ NextBridge \/ NextPairing \/ NextStores \/ NextMatch
        \/ NextReadOnly \/ NextStore \/ NextFrame
        \/ NextChannel \/ NextServer \/ NextLocks
        \/ NextCerts \/ NextPayload \/ NextCleanup \/ NextStatus
        \/ NextPermissions

Spec == Init /\ [][Next]_vars

\* ----------------------------------------------------------------------
\* C1: on both transports the answer to a credentials query carries vault
\* entries only if request_approval returned APPROVED to that query; when
\* the decision is DENIED or TIMEOUT, or the call raises, it carries none.
C1_EntriesOnlyWhenApproved ==
    last.op = "query" =>
        /\ last.response.entries # << >> =>
              /\ last.called
              /\ ~last.res.raised
              /\ last.res.decision = "APPROVED"
        /\ (last.called /\ (last.res.raised
                            \/ last.res.decision \in {"DENIED", "TIMEOUT"})) =>
              last.response.entries = << >>

\* a query over the socket whose entries matched and which the user denied
C1_Witness ==
    /\ last.op = "query"
    /\ last.kind = "socket"
    /\ last.called
    /\ last.matched # << >>
    /\ last.res.decision = "DENIED"
    /\ last.response.entries = << >>

C3_HandlerFailureIsTimeout ==
    [][ (/\ last'.op = "request_approval"
         /\ last'.outcome.kind \in {"raise", "none"}) =>
           /\ ~last'.res.raised
           /\ last'.res.decision = "TIMEOUT"
           /\ approvals' = approvals
           /\ approvalFile' = approvalFile
           /\ last'.rid \notin DOMAIN pending'
           /\ last'.rid \in DOMAIN responses'
           /\ responses'[last'.rid].decision = "TIMEOUT"
      ]_vars

\* the handler raised while the request was pending and a decision stored
C3_Witness ==
    /\ last.op = "request_approval"
    /\ last.outcome.kind = "raise"
    /\ last.res.decision = "TIMEOUT"
    /\ last.rid \in DOMAIN responses
    /\ approvals.map # << >>

\* ----------------------------------------------------------------------
\* C4: a request_approval call for a pair whose remembered decision is
\* approved=true returns APPROVED with remember=true at once: it does not
\* reach the prompt handler or the no-handler path, pending is unchanged.
C4_RememberedApprovalBypassesPrompt ==
    [][ /\ last'.op \in {"prompt", "pending"} =>
              ~remembered(approvals, last'.origin, last'.fingerprint, TRUE)
        /\ (/\ last'.op = "request_approval"
            /\ last'.outcome.kind \in {"auto", "raised"}
            /\ remembered(approvals, last'.origin, last'.fingerprint, TRUE)) =>
              /\ last'.res = AutoResult
              /\ ~last'.prompted
              /\ pending' = pending
              /\ responses' = responses
              /\ wk' = wk
      ]_vars

\* a remembered pair was approved while a handler was registered
C4_Witness ==
    /\ last.op = "request_approval"
    /\ last.outcome.kind = "auto"
    /\ handler
    /\ remembered(approvals, last.origin, last.fingerprint, TRUE)
    /\ last.res.decision = "APPROVED"
    /\ last.res.remember

\* ----------------------------------------------------------------------
\* C5 (as stated): once a response with remember=true and decision=DENIED
\* has stored a denial for (origin, fingerprint), a request_approval call for
\* that pair does not invoke the prompt handler.
C5_RememberedDenialBypassesPrompt ==
    [][ (/\ last'.op = "prompt"
         /\ remembered(approvals, last'.origin, last'.fingerprint, FALSE)) =>
           ~ \E rid \in DOMAIN responses :
                 /\ rid[1] = last'.origin
                 /\ responses[rid].decision = "DENIED"
                 /\ responses[rid].remember
      ]_vars

\* ----------------------------------------------------------------------
\* C6 (as stated): after revoke(origin, fingerprint) or clear_all the pair is
\* no longer approved, so that its next request prompts again; revoke leaves
\* the remembered decision of every other pair in place, and returns false
\* with no change when the pair is not stored.
C6_RevokeOnlyThatPair ==
    [][ /\ last'.op = "clear_all" => list_approvals(approvals') = {}
        /\ last'.op = "revoke_approval" =>
              /\ ~is_approved(approvals', last'.origin, last'.fingerprint)
              /\ \A r \in list_approvals(approvals) :
                    (r.origin # last'.origin
                     \/ r.fingerprint # last'.fingerprint)
                    => r \in list_approvals(approvals')
              /\ (~ \E r \in list_approvals(approvals) :
                       /\ r.origin = last'.origin
                       /\ r.fingerprint = last'.fingerprint)
                 => (~last'.ret /\ approvals' = approvals)
      ]_vars

\* ----------------------------------------------------------------------
\* C7 (as stated): validate returns the record iff the token is present and
\* now < expires_at; a present token that is expired gives None and is
\* removed from the map and from the file, so that list_tokens no longer
\* contains it; an absent token gives None.
C7_ValidateIffUnexpired ==
    [][ last'.op = "validate" =>
          LET tok == last'.token
              present == tok \in DOMAIN tokens
          IN  /\ (last'.ret # None)
                    <=> (present /\ now < tokens[tok].expires_at)
              /\ last'.ret # None => last'.ret = Some(tokens[tok])
              /\ (present /\ ~(now < tokens[tok].expires_at)) =>
                    /\ last'.ret = None
                    /\ tok \notin DOMAIN tokens'
                    /\ tok \notin DOMAIN load(tokenFile')
                    /\ \A r \in list_tokens(tokens', now') : r.token # tok
              /\ ~present => (last'.ret = None /\ tokens' = tokens)
      ]_vars

\* ----------------------------------------------------------------------
\* C8: a generated token that validate rejects stays rejected by every
\* later step; a revoke that returned true and a validate that returned None
\* leave the token rejected; no step changes the expires_at of a record; an
\* authenticated request carrying a rejected token is answered 401 and its
\* endpoint's logic is not executed.
C8_InvalidTokenStaysInvalid ==
    [][ /\ \A tok \in {BadToken} \cup (1..ntok) :
              validate_ret(tokens, tok, now) = None
              => validate_ret(tokens', tok, now') = None
        /\ \A tok \in DOMAIN tokens \cap DOMAIN tokens' :
              tokens'[tok].expires_at = tokens[tok].expires_at
        /\ (last'.op = "revoke" /\ last'.ret) =>
              validate_ret(tokens', last'.token, now') = None
        /\ (last'.op = "validate" /\ last'.ret = None) =>
              validate_ret(tokens', last'.token, now') = None
        /\ (/\ last'.op \in AuthOps
            /\ last'.hdr.present
            /\ last'.hdr.scheme = "Bearer "
            /\ validate_ret(tokens, last'.hdr.cred, now) = None) =>
              /\ last'.status_code = 401
              /\ ~last'.executed
      ]_vars

\* a request carried a token that had been issued and is no longer stored
C8_Witness ==
    /\ last.op \in AuthOps
    /\ last.hdr.present
    /\ last.hdr.scheme = "Bearer "
    /\ last.hdr.cred \in 1..ntok
    /\ last.hdr.cred \notin DOMAIN tokens
    /\ last.status_code = 401

\* ----------------------------------------------------------------------
\* C9 (as stated): on both transports a request to an authenticated
\* endpoint with no Authorization header, with a header that is not
\* "Bearer <token>", or with a token that validate rejects is answered 401
\* and the endpoint's logic is not executed.
C9_Unauthorized401 ==
    (last.op \in AuthOps /\ Unauthorized(last.hdr)) =>
        /\ last.status_code = 401
        /\ ~last.executed

C11_PairFailureStatus ==
    [][ (last'.op = "pair" /\ last'.outcome # "ok") =>
           /\ last'.outcome = "NoActiveSession" <=>
                 (pairing = None \/ pairing[1].expires_at < now)
           /\ last'.outcome = "NoActiveSession" => last'.status_code = 410
           /\ last'.outcome = "InvalidCode" => last'.status_code = 401
           /\ last'.token = None
           /\ UNCHANGED <<pairing, tokens, tokenFile, ntok>>
      ]_vars

\* ----------------------------------------------------------------------
\* C12 (as stated): there is one pairing session; generate_pairing_code
\* replaces it with a session of the new code that expires at now + window,
\* and from then on only that newest session can complete a pairing: a pair
\* request that succeeds does so against the session that is current when
\* it completes, with that session's code and before its expiry.
C12_OnlyNewestSessionPairs ==
    [][ /\ last'.op = "generate_pairing_code" =>
              pairing' = Some([code |-> last'.code,
                               expires_at |-> now + PairingWindow])
        /\ (last'.op = "pair" /\ last'.outcome = "ok") =>
              /\ pairing # None
              /\ pairing[1].code = last'.code
              /\ now <= pairing[1].expires_at
      ]_vars

\* ----------------------------------------------------------------------
\* C13 (as stated): every record of the Token Store has
\* expires_at = issued_at + TTL.
C13_ExpiresAtIsIssuedAtPlusTTL ==
    \A tok \in DOMAIN tokens :
        tokens[tok].expires_at = tokens[tok].issued_at + TTL

C15_CorruptFileIsEmptyStore ==
    /\ (last.op \in {"init", "restart"} /\ tokenFile.kind # "object") =>
          tokens = << >>
    /\ (last.op \in {"init", "restart"} /\ approvalFile.kind # "object") =>
          approvals.map = << >>
    /\ last.op \in {"is_approved", "remember_approval"} => ~last.raised

\* ----------------------------------------------------------------------
\* C16 (as stated): on every handler an entry matches an origin iff its
\* site or its notes contains, ignoring case, the origin, the origin's bare
\* domain or the domain's first label.
C16_MatchRule ==
    last.op = "match" =>
        (last.ret <=> matching_rule(last.origin, last.site, last.notes))

\* ----------------------------------------------------------------------
\* C17 (as stated): on both transports a credentials query whose approval
\* was DENIED or TIMEOUT is answered with a normal response (status 200),
\* an empty entry list and a reason that tells the two apart: "Access
\* denied" for DENIED, "Request timed out" otherwise.
C17_DeniedAndTimeoutReported ==
    (/\ last.op = "query"
     /\ last.called
     /\ ~last.res.raised
     /\ last.res.decision \in {"DENIED", "TIMEOUT"}) =>
        /\ last.response.status_code = 200
        /\ last.response.entries = << >>
        /\ last.response.error = IF last.res.decision = "DENIED"
                                 THEN "Access denied"
                                 ELSE "Request timed out"

\* ----------------------------------------------------------------------
\* C18 (as stated): a request with a valid token to credentials/check,
\* audit/report or clipboard/clear does not call the Approval Engine,
\* returns no decrypted entry, and leaves the vault, the Token Store, the
\* pairing session, the pending and response maps and the Remembered
\* Decision Store unchanged; check answers exists = true iff some entry
\* matching the origin has exactly the given username.
C18_ReadOnlyEndpoints ==
    [][ (/\ last'.op \in {"check", "audit_report", "clipboard_clear"}
         /\ require_token(last'.hdr, tokens, now) = 200) =>
           /\ last'.executed
           /\ ~last'.called
           /\ last'.response.entries = << >>
           /\ UNCHANGED <<vault, tokens, tokenFile, ntok, pairing, pending,
                          responses, approvals, approvalFile, nreq>>
           /\ (last'.op = "check" /\ last'.status_code = 200) =>
                 (last'.exists <=>
                    \E i \in DOMAIN vault :
                        /\ matching_rule(last'.origin, vault[i].website,
                                         vault[i].notes)
                        /\ vault[i].username = last'.username)
      ]_vars

C20_FrameSizeLimit ==
    (last.op = "receive_message" /\ Len(last.sent) = 4) =>
        LET declared == last.sent[1] * 16777216 + last.sent[2] * 65536
                        + last.sent[3] * 256 + last.sent[4]
        IN  /\ declared > 10485760 =>
                 last.outcome = "ValueError" /\ last.consumed = 0
            /\ declared <= 10485760 => last.outcome # "ValueError"

\* a frame of exactly 10 MiB whose body arrived was read whole, and a frame
\* of one byte more is possible input as well
C20_Witness ==
    /\ last.op = "receive_message"
    /\ last.sent = <<0, 160, 0, 0>>
    /\ last.available = 10485760
    /\ last.outcome = "json.loads"
    /\ last.consumed = 10485760

\* ----------------------------------------------------------------------
\* C21 (as stated): when the peer closes the connection before a complete
\* 4-byte length prefix or before the complete declared body has arrived,
\* receive_message raises OSError; it never decodes a truncated prefix or
\* body and never reports the truncation as an oversize or a JSON error.
C21_TruncationIsIOError ==
    (/\ last.op = "receive_message"
     /\ \/ Len(last.sent) < 4
        \/ last.available < last.message_length) =>
        last.outcome = "OSError"

\* ----------------------------------------------------------------------
\* C22: every JSON object sent with send_message is returned unchanged by
\* receive_message at the peer; successive frames on one connection are
\* returned in sending order with their boundaries kept, however the byte
\* stream is split into chunks: the messages returned are always the first
\* of the messages sent, no call fails, and once every byte has been read
\* all the messages sent have been returned.
C22_FramesRoundTrip ==
    /\ chan.error = ""
    /\ Len(chan.delivered) <= Len(chan.sent)
    /\ \A i \in 1..Len(chan.delivered) : chan.delivered[i] = chan.sent[i]
    /\ (chan.wire = << >> /\ chan.data = << >> /\ chan.reading = "length")
          => chan.delivered = chan.sent

\* two different frames, the first with two members, have both been
\* returned
C22_Witness ==
    /\ Len(chan.delivered) = 2
    /\ chan.delivered = chan.sent
    /\ Len(chan.delivered[1]) = 2
    /\ chan.delivered[1] # chan.delivered[2]
    /\ chan.wire = << >>

\* ----------------------------------------------------------------------
\* C23 (as stated): after stop() returns neither listener is accepting
\* requests, is_running is false and the domain socket file is removed;
\* and no state is reachable in which is_running is false while a listener
\* is still alive.
C23_StopStopsBothListeners ==
    /\ last.op = "stop" =>
          /\ ~is_running(srv)
          /\ ~srv.sock_file
          /\ ~srv.http_alive
          /\ ~srv.sock_alive
    /\ ~is_running(srv) => ~srv.http_alive /\ ~srv.sock_alive

C24_SharedStateUnderMutex ==
    /\ \A w \in Workers :
          crit.at[w].structure # "none" => crit.lock = Some(w)
    /\ \A v, w \in Workers :
          (v # w /\ crit.at[v].structure # "none")
             => crit.at[v].structure # crit.at[w].structure

\* ----------------------------------------------------------------------
\* C25 (as stated): each in-flight request_approval call that is not
\* covered by a remembered decision has one pending Approval Request of its
\* own, under a request_id distinct from that of every other in-flight
\* call; the request leaves pending once its response is recorded, so
\* pending never holds a request whose call has completed.
C25_OnePendingRequestPerCall ==
    LET inflight == { w \in Workers : wk[w].pc \in {"prompt", "nohandler"} }
    IN  /\ \A v, w \in inflight : v # w => wk[v].rid # wk[w].rid
        /\ \A w \in inflight :
              wk[w].rid \in DOMAIN pending \cup DOMAIN responses
        /\ \A rid \in DOMAIN pending : \E w \in inflight : wk[w].rid = rid

\* ----------------------------------------------------------------------
\* C30: respond(request_id, decision, remember) returns false
\* and changes nothing when request_id is not pending; otherwise it records
\* the response, removes the request from pending, upserts the remembered
\* decision for the request's (origin, fingerprint) when remember is true,
\* and returns true.
C30_RespondAnswersPending ==
    [][ last'.op = "respond_to_request" =>
          IF last'.rid \notin DOMAIN pending
          THEN /\ last'.ret = FALSE
               /\ UNCHANGED <<pending, responses, approvals, approvalFile>>
          ELSE /\ last'.ret = TRUE
               /\ ~last'.raised
               /\ last'.rid \notin DOMAIN pending'
               /\ last'.rid \in DOMAIN responses'
               /\ responses'[last'.rid].decision = last'.decision
               /\ last'.remember =>
                     remembered(approvals', pending[last'.rid].origin,
                                pending[last'.rid].fingerprint,
                                last'.decision = "APPROVED")
               /\ ~last'.remember =>
                     UNCHANGED <<approvals, approvalFile>>
      ]_vars

\* a pending request has been answered through respond with remember set:
\* the response is recorded, the request is gone and the decision is stored
C30_Witness ==
    /\ last.op = "respond_to_request"
    /\ last.ret
    /\ last.remember
    /\ last.rid \in DOMAIN responses
    /\ last.rid \notin DOMAIN pending
    /\ responses[last.rid].decision = last.decision
    /\ \E r \in list_approvals(approvals) :
          r.approved = (last.decision = "APPROVED")

\* ----------------------------------------------------------------------
\* C27 (as stated): ensure_certificate returns the existing certificate
\* and key unchanged, writing nothing, whenever the existing certificate
\* has more than 30 days of validity remaining, and generates a new pair
\* with a different fingerprint only when fewer than 30 days remain.
C27_ReuseAbove30Days ==
    (/\ last.op = "ensure_certificate"
     /\ last.before.cert.state = "valid"
     /\ last.before.key.state = "valid") =>
        LET remaining == last.before.cert.not_valid_after - last.before.clock
        IN  /\ remaining > 30 * DayTicks =>
                 /\ ~last.wrote
                 /\ last.cert = last.before.cert
                 /\ last.key = last.before.key
            /\ last.wrote =>
                 /\ remaining < 30 * DayTicks
                 /\ last.cert.serial # last.before.cert.serial

\* ----------------------------------------------------------------------
\* C28 (as stated): if the existing certificate file or private-key file
\* is corrupt, ensure_certificate treats it as no existing material and
\* regenerates both files instead of failing or returning the corrupt
\* material.
C28_CorruptMaterialRegenerated ==
    (/\ last.op = "ensure_certificate"
     /\ \/ last.before.cert.state = "corrupt"
        \/ last.before.key.state = "corrupt") =>
        /\ last.wrote
        /\ last.cert.state = "valid"
        /\ last.key.state = "valid"
        /\ last.cert.serial = last.key.serial
        /\ last.cert.serial # last.before.cert.serial

\* ----------------------------------------------------------------------
\* C29 (as stated): for all JSON-serializable payloads P and secrets S,
\* decrypt(encrypt(P, S), S) = P; decryption with a different secret, or
\* of an envelope with any changed ciphertext, nonce or tag, or with a
\* missing or truncated field, or whose plaintext is not JSON, raises and
\* returns no data.
C29_RoundTripOrRaise ==
    last.op = "decrypt" =>
        IF /\ last.receiver_secret = last.shared_secret
           /\ last.mutation.kind = "none"
        THEN ~last.raised /\ last.ret = Some(last.payload)
        ELSE last.raised /\ last.ret = None

\* C29 (amended): decrypt(encrypt(P, S), S) is P as JSON reads it back
\* (member names as strings, tuples as lists), so it is P itself for every
\* P made of string-keyed objects, lists, strings and numbers, also when
\* the base64 text of a field was rewritten without changing the bytes it
\* encodes; with a different secret, with changed bytes of the ciphertext,
\* nonce or tag, with a missing or truncated field, or with a plaintext
\* that is not JSON, decrypt raises and returns no data.
C29_RoundTripOfJSONValues ==
    last.op = "decrypt" =>
        IF /\ last.receiver_secret = last.shared_secret
           /\ last.mutation.kind \in {"none", "other_text"}
        THEN /\ ~last.raised
             /\ last.ret # None
             /\ last.ret[1].value.v = last.payload.value.v
             /\ last.ret[1].key.v = last.payload.key.v
             /\ last.ret[1].key.type = "str"
             /\ last.ret[1].value.type \in {"int", "list"}
             /\ (/\ last.payload.key.type = "str"
                 /\ last.payload.value.type # "tuple")
                   => last.ret = Some(last.payload)
        ELSE last.raised /\ last.ret = None

\* a payload holding a list has come back unchanged from an untouched
\* envelope
C29_Witness ==
    /\ last.op = "decrypt"
    /\ last.mutation.kind = "none"
    /\ last.receiver_secret = last.shared_secret
    /\ last.payload.value.type = "list"
    /\ ~last.raised
    /\ last.ret = Some(last.payload)

\* ----------------------------------------------------------------------
\* C31: request_approval keeps the response history bounded: however many
\* approval requests have been processed, the history never holds one
\* response for each of them.
C31_ResponseHistoryBounded ==
    Cardinality(DOMAIN responses) < MaxRequests

\* ----------------------------------------------------------------------
\* C32: in every interleaving of pair requests on the HTTP listener and on
\* concurrent socket workers, at most one token is issued per pairing
\* session: every pair request that issues a token finds the session open
\* and closes it, so no second token follows without a new session.
C32_OneTokenPerSession ==
    [][(last'.op = "pair" /\ last'.token # None) =>
          (pairing # None /\ pairing' = None)]_vars

\* ----------------------------------------------------------------------
\* C33: on both transports a credentials query that matches no vault entry
\* is answered with an empty result, creates no Approval Request and does
\* not invoke the prompt handler; the Approval Engine is only ever called
\* with entry_count >= 1.
C33_NoApprovalWithoutMatch ==
    /\ \A rid \in DOMAIN pending : pending[rid].entry_count >= 1
    /\ (last.op = "query" /\ last.executed /\ last.matched = << >>) =>
          /\ ~last.called
          /\ ~last.prompted
          /\ last.response.status_code = 200
          /\ last.response.entries = << >>

\* ----------------------------------------------------------------------
\* C34: when respond(request_id, DENIED, remember) has returned true for a
\* request whose prompt handler is still running, the request_approval call
\* of that request does not return APPROVED, and the handler's return
\* overwrites neither the response recorded by respond nor the remembered
\* decisions.
C34_RespondDeniedIsFinal ==
    [][ (/\ last.op = "respond_to_request"
         /\ last.ret
         /\ last.decision = "DENIED"
         /\ last'.op = "request_approval"
         /\ last'.outcome.kind \in {"response", "raise", "none"}
         /\ last'.rid = last.rid) =>
           /\ last'.res.decision # "APPROVED"
           /\ responses'[last.rid] = responses[last.rid]
           /\ approvals' = approvals
      ]_vars

\* ----------------------------------------------------------------------
\* C35: a decision remembered for (origin, fingerprint) concerns that pair
\* alone: remember or revoke on it leaves is_approved(o', f') unchanged for
\* every other pair (o', f'), whatever characters the strings contain.
C35_DecisionOnlyForItsPair ==
    [][ last'.op \in {"remember_approval", "revoke_approval"} =>
          \A p \in Pairs :
              (p[1] # last'.origin \/ p[2] # last'.fingerprint) =>
                 (is_approved(approvals', p[1], p[2])
                    <=> is_approved(approvals, p[1], p[2]))
      ]_vars

\* ----------------------------------------------------------------------
\* C36: once approved=true is remembered for (origin, fingerprint), the pair
\* stays approved until revoke or clear_all: in any interleaving of
\* concurrent requests, no step of a request (the return of a prompt
\* handler, a respond) removes the remembered approval or turns it into a
\* denial.
C36_ApprovalStaysUntilRevoked ==
    [][ \A p \in Pairs :
          (/\ remembered(approvals, p[1], p[2], TRUE)
           /\ last'.op \notin {"revoke_approval", "clear_all",
                                "remember_approval"}) =>
             is_approved(approvals', p[1], p[2])
      ]_vars

\* ----------------------------------------------------------------------
\* C37: status reports pairing_active = true exactly when a pair request
\* with the current code would succeed at that moment; it is false before
\* any code is generated, after a successful pair, and once the pairing
\* window has expired.
C37_PairingActiveIffPairWouldSucceed ==
    last.op = "status" =>
        (last.pairing_active <=>
            (pairing # None /\ pair_outcome(pairing, pairing[1].code, now) = "ok"))

\* ----------------------------------------------------------------------
\* C38: whenever the private-key file exists and holds key material, during
\* generation and regeneration included, its permissions are 0600; once
\* the generation has returned, the certificate file is 0644.
C38_KeyFileOwnerOnly ==
    /\ certs.key.state # "absent" => certs.key.mode = "0600"
    /\ last.op = "generated" => certs.cert.mode = "0644"

\* ----------------------------------------------------------------------
\* C39: expired tokens do not accumulate: when validate(token) or
\* list_tokens returns, no record the operation found expired is left in the
\* in-memory map or in the file, and list_tokens returns only records with
\* now < expires_at.
C39_ExpiredTokensPruned ==
    [][ /\ (/\ last'.op = "validate"
            /\ last'.token \in DOMAIN tokens
            /\ last'.ret = None) =>
              /\ last'.token \notin DOMAIN tokens'
              /\ last'.token \notin DOMAIN load(tokenFile')
        /\ last'.op = "list_tokens" =>
              /\ \A r \in last'.ret : now < r.expires_at
              /\ \A tok \in DOMAIN tokens :
                    ~(now < tokens[tok].expires_at) =>
                        /\ tok \notin DOMAIN tokens'
                        /\ tok \notin DOMAIN load(tokenFile')
      ]_vars

\* ----------------------------------------------------------------------
\* C40: cleanup_old_responses(max_age) removes exactly the responses with
\* timestamp < now - max_age, returns how many they are, and changes neither
\* the newer responses, nor the pending requests, nor the remembered
\* decisions.
C40_CleanupRemovesExactlyOld ==
    [][last'.op = "cleanup_old_responses" =>
        LET old == { rid \in DOMAIN responses :
                       responses[rid].timestamp < now - last'.max_age_seconds }
        IN /\ DOMAIN responses' = DOMAIN responses \ old
           /\ \A rid \in DOMAIN responses' : responses'[rid] = responses[rid]
           /\ last'.ret = Cardinality(old)
           /\ pending' = pending
           /\ approvals' = approvals
           /\ approvalFile' = approvalFile]_vars

\* a purge that removed one response and kept a newer one, with a decision
\* remembered
C40_Witness ==
    /\ last.op = "cleanup_old_responses"
    /\ last.ret = 1
    /\ DOMAIN responses # {}
    /\ DOMAIN approvals.map # {}

====
